---- MODULE Spec2Model ----
(***************************************************************************)
(* AICG_Shadertoy: the host side (src/main.js) that keeps a list of SDF     *)
(* primitives, serialises it into the scene uniform buffer and draws        *)
(* frames, and the WGSL evaluator (src/unnamed/part_001) that reads that    *)
(* buffer.                                                                  *)
(*                                                                          *)
(* Numbers.  A JavaScript Number is held as an integer count of hundredths  *)
(* (80 stands for 0.8): every default and every editor step of main.js is   *)
(* a multiple of 0.01.  An ArrayBuffer is a sequence of 4-byte words, each  *)
(* word the tuple of its four bytes in memory order (little-endian), so a   *)
(* Uint32Array store and a Float32Array store are modelled by the bytes     *)
(* they leave in memory.                                                    *)
(***************************************************************************)
EXTENDS Integers, Sequences, FiniteSets, TLC

VARIABLES
    encIn,      \* buildSceneData: the argument of the latest call
    encOut,     \* buildSceneData: the buffer the latest call returned
    encMemo,    \* an earlier call kept for comparison: <<argument, buffer>>
    scenePrimitives,        \* the host's primitive list
    selectedPrimitiveIndex, \* 0-based index of the selected entry, -1 if none
    listRows,   \* rows of #object-list; row i carries handlers bound to index i
    details,    \* what the controls of #object-details are bound to
    pc,         \* how far main() has come
    device,     \* the GPUDevice exists
    sceneBuffer,\* the GPUBuffer for the scene exists
    pipeline,   \* the render pipeline (and bind group) exists
    queue,      \* device.queue: operations issued and not yet executed
    gpuScene,   \* the bytes of the scene buffer in GPU memory
    pass,       \* the render pass the GPU is executing, if any
    edits,      \* number of editor events counted against the model's bound
    lastEvent,  \* the editor event handled last (SpecEditor)
    distIn,     \* get_dist: the scene uniform and the point of the latest call
    distOut,    \* get_dist: what the latest call returned
    pixel,      \* render: the bounce loop of the pixel being shaded
    fresnelIn,  \* fresnel: the arguments of the latest call
    fresnelOut, \* fresnel: what the latest call returned
    march,      \* ray_march: the loop of the march being made
    camera      \* the orbit camera and its drag state

encVars == <<encIn, encOut, encMemo>>

editorVars == <<scenePrimitives, selectedPrimitiveIndex, listRows, details>>

gpuVars == <<pc, device, sceneBuffer, pipeline, queue, gpuScene, pass>>

distVars == <<distIn, distOut, pixel, fresnelIn, fresnelOut, march,
          camera>>

vars == <<encIn, encOut, encMemo, scenePrimitives, selectedPrimitiveIndex,
          listRows, details, pc, device, sceneBuffer, pipeline, queue,
          gpuScene, pass, edits, lastEvent, distIn, distOut, pixel,
          fresnelIn, fresnelOut, march,
          camera>>

-----------------------------------------------------------------------------
(* Program constants                                                        *)

MAX_PRIMS == 16
PRIMITIVE_SIZE == 48
SCENE_HEADER_SIZE == 32
SCENE_SIZE == SCENE_HEADER_SIZE + MAX_PRIMS * PRIMITIVE_SIZE

SPHERE == 0
PLANE == 1
BOX == 2
ROUNDED_BOX == 3
CYLINDER == 4
TORUS == 5
CAPSULE == 6

MAT_GROUND == 0
MAT_METAL == 1
MAT_GLASS == 2
MAT_WATER == 3
MAT_DIFFUSE == 4

(* The layout the evaluator declares: struct Primitive is four vec4 (64      *)
(* bytes) and struct Scene puts the array at byte 32.                       *)
WGSL_PRIMITIVE_SIZE == 64
WGSL_SCENE_HEADER_SIZE == 32
WGSL_MAX_PRIMS == 16
WGSL_SCENE_SIZE == WGSL_SCENE_HEADER_SIZE + WGSL_MAX_PRIMS * WGSL_PRIMITIVE_SIZE

-----------------------------------------------------------------------------
(* Bounds of the model                                                      *)

\* Longest list handed to buildSceneData (beyond MAX_PRIMS on purpose).
MaxLen == 18
\* Largest magnitude of a host number, in hundredths (the editor's inputs
\* range over [-10, 10]).
MaxAbsNumber == 1000
\* Editor events (add, remove, field update) per behaviour of Spec.
MaxEdits == 2
\* Field updates per behaviour of SpecEditor.
\* Operations device.queue may hold before the GPU has executed them.
MaxQueue == 1
\* Fragment-shader invocations of one render pass.
Fragments == 2
MaxScene == 3

-----------------------------------------------------------------------------
(* Typed-array stores                                                       *)

Min(a, b) == IF a < b THEN a ELSE b

Pow2(n) == IF n <= 0 THEN 1 ELSE 2 ^ n

\* Uint32Array store: ToUint32(v), little-endian.
Uint32Bytes(v) ==
    << v % 256, (v \div 256) % 256, (v \div 65536) % 256, (v \div 16777216) % 256 >>

ZeroWord == <<0, 0, 0, 0>>

\* The binary exponent e of a/100 (a > 0): 2^e <= a/100 < 2^(e+1).
RECURSIVE ExpUp(_, _)
ExpUp(a, e) == IF a >= 100 * Pow2(e + 1) THEN ExpUp(a, e + 1) ELSE e

RECURSIVE ExpDown(_, _)
ExpDown(a, k) == IF a * Pow2(k) >= 100 THEN -k ELSE ExpDown(a, k + 1)

Exponent(a) == IF a >= 100 THEN ExpUp(a, 0) ELSE ExpDown(a, 1)

\* Long division: `left` more fraction bits of num/den, remainder r, bits so far m.
RECURSIVE FracBits(_, _, _, _)
FracBits(r, den, m, left) ==
    IF left = 0 THEN <<m, r>>
    ELSE IF 2 * r >= den
         THEN FracBits(2 * r - den, den, 2 * m + 1, left - 1)
         ELSE FracBits(2 * r, den, 2 * m, left - 1)

\* Float32Array store of the number n/100: round to nearest, ties to even,
\* then the IEEE-754 binary32 bytes, little-endian.
Float32Fields(n) ==
    IF n = 0 THEN [sign |-> 0, exp |-> 0, mant |-> 0]
    ELSE
      LET a   == IF n < 0 THEN -n ELSE n
          e   == Exponent(a)
          num == IF e < 0 THEN a * Pow2(-e) ELSE a
          den == IF e < 0 THEN 100 ELSE 100 * Pow2(e)
          mr  == FracBits(num - den, den, 0, 23)
          m   == mr[1]
          r   == mr[2]
          up  == (2 * r > den) \/ (2 * r = den /\ m % 2 = 1)
          m2  == IF up THEN m + 1 ELSE m
          ovf == m2 = 8388608
      IN  [sign |-> IF n < 0 THEN 1 ELSE 0,
           exp  |-> 127 + e + (IF ovf THEN 1 ELSE 0),
           mant |-> IF ovf THEN 0 ELSE m2]

FieldsBytes(f) ==
    << f.mant % 256,
       (f.mant \div 256) % 256,
       (f.exp % 2) * 128 + f.mant \div 65536,
       f.sign * 128 + f.exp \div 2 >>

Float32Table == [n \in (-MaxAbsNumber)..MaxAbsNumber |-> FieldsBytes(Float32Fields(n))]

Float32Bytes(n) == Float32Table[n]

-----------------------------------------------------------------------------
(* Scene content and the encoder                                            *)

\* "No buffer" and "no call" are empty sequences: a real buffer is never empty.
NoBuffer == << >>
NoCall == << >>

\* A list entry as main.js builds it: no params2 field exists on the host.
Prim(kind, materialId, center, param0, params1) ==
    [kind |-> kind, materialId |-> materialId, center |-> center,
     param0 |-> param0, params1 |-> params1]

InitialScene ==
    << Prim(PLANE, MAT_GROUND, <<0, 0, 0>>, 100, <<0, 100, 0, 0>>),
       Prim(SPHERE, MAT_METAL, <<0, 0, 0>>, 80, <<0, 0, 0, 0>>) >>

\* A mutation: no default branch, the entry gets the kind it was asked for.
makeDefaultPrimitive_anyKind(kind) ==
    Prim(kind, MAT_DIFFUSE, <<0, 50, 0>>, 60, <<0, 0, 0, 0>>)

makeDefaultPrimitive(kind) ==
    CASE kind = SPHERE      -> Prim(SPHERE, MAT_DIFFUSE, <<0, 50, 0>>, 60, <<0, 0, 0, 0>>)
      [] kind = PLANE       -> Prim(PLANE, MAT_GROUND, <<0, 0, 0>>, 100, <<0, 100, 0, 0>>)
      [] kind = BOX         -> Prim(BOX, MAT_DIFFUSE, <<0, 50, 0>>, 0, <<50, 50, 50, 0>>)
      [] kind = ROUNDED_BOX -> Prim(ROUNDED_BOX, MAT_WATER, <<0, 50, 0>>, 10, <<70, 50, 70, 0>>)
      [] kind = CYLINDER    -> Prim(CYLINDER, MAT_DIFFUSE, <<0, 50, 0>>, 100, <<40, 0, 0, 0>>)
      [] kind = TORUS       -> Prim(TORUS, MAT_METAL, <<0, 50, 0>>, 100, <<25, 0, 0, 0>>)
      [] kind = CAPSULE     -> Prim(CAPSULE, MAT_DIFFUSE, <<0, 100, 0>>, 30, <<0, 0, 0, 0>>)
      [] OTHER              -> Prim(SPHERE, MAT_DIFFUSE, <<0, 50, 0>>, 60, <<0, 0, 0, 0>>)

ByteLength(buffer) == 4 * Len(buffer)

\* new ArrayBuffer(size): zero-filled.
NewArrayBuffer(size) == [w \in 1..(size \div 4) |-> ZeroWord]

\* A mutation: a module-level scratch buffer kept from the previous call.
SceneArrayBuffer_reused ==
    IF encOut = NoBuffer THEN NewArrayBuffer(SCENE_SIZE) ELSE encOut

\* const buffer = new ArrayBuffer(SCENE_SIZE)
SceneArrayBuffer == NewArrayBuffer(SCENE_SIZE)

headerWords == SCENE_HEADER_SIZE \div 4
wordsPerPrimitive == PRIMITIVE_SIZE \div 4
baseIndex(index) == headerWords + index * wordsPerPrimitive

\* A mutation: the count is not clamped to the capacity.
SceneCount_unclamped(primitives) == Len(primitives)

\* const count = Math.min(primitives.length, MAX_PRIMS)
SceneCount(primitives) == Min(Len(primitives), MAX_PRIMS)

\* writePrimitive(index, spec): the word stored at baseIndex(index) + k.
writePrimitive(spec, k) ==
    CASE k = 0        -> Uint32Bytes(spec.kind)
      [] k = 1        -> Uint32Bytes(spec.materialId)
      [] k \in {2, 3} -> Uint32Bytes(0)
      [] k \in 4..6   -> Float32Bytes(spec.center[k - 3])
      [] k = 7        -> Float32Bytes(spec.param0)
      [] k \in 8..11  -> Float32Bytes(spec.params1[k - 7])

\* The buffer after the header stores and writePrimitive(i, primitives[i]) for
\* i < count, over the freshly allocated buffer.  x is the 0-based index of
\* the u32/f32 view; a store past the view's length is dropped by the typed
\* array, so only x < Len(buffer) exist.
buildSceneData(primitives) ==
    LET buffer == SceneArrayBuffer
        count  == SceneCount(primitives)
    IN  [w \in 1..Len(buffer) |->
          LET x == w - 1
              i == (x - headerWords) \div wordsPerPrimitive
              k == (x - headerWords) % wordsPerPrimitive
          IN  IF x = 0 THEN Uint32Bytes(count)
              ELSE IF x < headerWords THEN Uint32Bytes(0)
              ELSE IF i < count THEN writePrimitive(primitives[i + 1], k)
              ELSE buffer[w]]

-----------------------------------------------------------------------------
(* The scene editor                                                         *)

NoEvent == [op |-> "none", arg |-> 0, len |-> 0]

\* The details panel: the index its callbacks captured (-1: placeholder, no
\* controls), and the arrays two of its controls hold.  "Position" holds
\* prim.center itself (posLive) until a "Point A" edit replaces the entry's
\* center by a new array; from then on it holds the old array (pos).
\* "Point A" (capsules) holds a copy of the center made when the panel was
\* built (ptA).
NoDetails == [index |-> -1, posLive |-> TRUE, pos |-> <<0, 0, 0>>, ptA |-> <<0, 0, 0>>]

\* buildSceneEditorUI: "Ensure selected index is valid".
EnsureSelection(list, sel) ==
    IF Len(list) = 0 THEN -1
    ELSE IF sel < 0 \/ sel >= Len(list) THEN 0
    ELSE sel

\* A mutation: the remove handler leaves the selected index alone.
FixSelection_keeps(list, sel) == sel

\* removeBtn.onclick: "Fix selected index".
FixSelection(list, sel) ==
    IF Len(list) = 0 THEN -1
    ELSE IF sel >= Len(list) THEN Len(list) - 1
    ELSE sel

\* renderObjectList: one row per entry.
renderObjectList(list) == Len(list)

\* renderObjectDetails: the placeholder, or controls bound to the selection.
renderObjectDetails(list, sel) ==
    IF Len(list) = 0 \/ sel < 0 \/ sel >= Len(list) THEN NoDetails
    ELSE [index   |-> sel,
          posLive |-> TRUE,
          pos     |-> <<0, 0, 0>>,
          ptA     |-> IF list[sel + 1].kind = CAPSULE THEN list[sel + 1].center
                      ELSE <<0, 0, 0>>]

WriteOp(data) == [op |-> "write", data |-> data, list |-> << >>]
PassOp(list) == [op |-> "pass", data |-> << >>, list |-> list]

\* updateSceneGPU with scenePrimitives = primitives: device.queue afterwards.
updateSceneGPU(primitives) ==
    IF ~device \/ ~sceneBuffer THEN queue
    ELSE Append(queue, WriteOp(buildSceneData(primitives)))

\* A mutation: the bytes of a write are visible to the GPU at once.
WriteLands_atOnce(primitives) ==
    IF device /\ sceneBuffer THEN buildSceneData(primitives) ELSE gpuScene

\* device.queue.writeBuffer: GPU memory right after the call returns.  The
\* bytes are staged and land in queue order, so nothing changes yet.
WriteLands(primitives) == gpuScene

\* A mutation: the capacity test is off by one.
AtCapacity_offByOne(list) == Len(list) > MAX_PRIMS

\* if (scenePrimitives.length >= MAX_PRIMS) return;
AtCapacity(list) == Len(list) >= MAX_PRIMS

\* The host's part of a handler that changed the list to `list` (the kept
\* selection is `sel`), uploaded it and re-rendered both panels.
Edited(list, sel) ==
    /\ scenePrimitives' = list
    /\ selectedPrimitiveIndex' = sel
    /\ queue' = updateSceneGPU(list)
    /\ gpuScene' = WriteLands(list)
    /\ listRows' = renderObjectList(list)
    /\ details' = renderObjectDetails(list, sel)
    /\ UNCHANGED <<pc, device, sceneBuffer, pipeline, pass>>

\* addPrimitive, with kind = parseInt(select.value).
addPrimitive(kind) ==
    IF AtCapacity(scenePrimitives)
    THEN UNCHANGED <<editorVars, gpuVars>>
    ELSE LET list == Append(scenePrimitives, makeDefaultPrimitive(kind))
         IN  Edited(list, EnsureSelection(list, Len(list) - 1))

\* A mutation: splice removes the entry after the clicked one.
Splice_wrongEntry(list, index) ==
    IF index + 2 <= Len(list)
    THEN SubSeq(list, 1, index + 1) \o SubSeq(list, index + 3, Len(list))
    ELSE SubSeq(list, 1, Len(list) - 1)

\* scenePrimitives.splice(index, 1)
Splice(list, index) ==
    SubSeq(list, 1, index) \o SubSeq(list, index + 2, Len(list))

\* removeBtn.onclick of row `index`.
removeBtn_onclick(index) ==
    /\ index < listRows
    /\ LET list == Splice(scenePrimitives, index)
       IN  Edited(list, FixSelection(list, selectedPrimitiveIndex))

\* row.onclick of row `index`.
row_onclick(index) ==
    /\ index < listRows
    /\ selectedPrimitiveIndex' = index
    /\ listRows' = renderObjectList(scenePrimitives)
    /\ details' = renderObjectDetails(scenePrimitives, index)
    /\ UNCHANGED <<scenePrimitives, gpuVars>>

\* The controls buildPrimitiveControls builds for a kind.
Controls(kind) ==
    {"Position", "Material"} \cup
    (CASE kind = SPHERE      -> {"Param0"}
       [] kind = PLANE       -> {"Params1Vec", "Param0"}
       [] kind = BOX         -> {"Params1Vec"}
       [] kind = ROUNDED_BOX -> {"Params1Vec", "Param0"}
       [] kind = CYLINDER    -> {"Params1X", "Param0"}
       [] kind = TORUS       -> {"Param0", "Params1X"}
       [] kind = CAPSULE     -> {"PointA", "Params1Vec", "Param0"}
       [] OTHER              -> {"Param0"})

\* The entry after the callback of `control` ran with component `axis`
\* (1..3, vector controls only) set to v, or with material v.
ControlEffect(prim, control, axis, v) ==
    CASE control = "Position" ->
           [prim EXCEPT !.center =
               IF details.posLive THEN [prim.center EXCEPT ![axis] = v]
               ELSE [details.pos EXCEPT ![axis] = v]]
      [] control = "PointA" ->
           [prim EXCEPT !.center = [details.ptA EXCEPT ![axis] = v]]
      [] control = "Params1Vec" ->
           [prim EXCEPT !.params1 = [prim.params1 EXCEPT ![axis] = v]]
      [] control = "Params1X" ->
           [prim EXCEPT !.params1 = [prim.params1 EXCEPT ![1] = v]]
      [] control = "Param0" -> [prim EXCEPT !.param0 = v]
      [] control = "Material" -> [prim EXCEPT !.materialId = v]

\* The arrays the panel's controls hold after that callback.
ControlPanel(prim, control, axis, v) ==
    CASE control = "Position" /\ ~details.posLive ->
           [details EXCEPT !.pos = [details.pos EXCEPT ![axis] = v]]
      [] control = "PointA" ->
           [details EXCEPT !.ptA = [details.ptA EXCEPT ![axis] = v],
                           !.posLive = FALSE,
                           !.pos = IF details.posLive THEN prim.center ELSE details.pos]
      [] OTHER -> details

\* A mutation: the material callback forgets updateSceneGPU().
onControlInput_noUpload(control, axis, v) ==
    /\ details.index >= 0
    /\ control \in Controls(scenePrimitives[details.index + 1].kind)
    /\ LET i    == details.index + 1
           prim == scenePrimitives[i]
       IN  /\ scenePrimitives' = [scenePrimitives EXCEPT ![i] = ControlEffect(prim, control, axis, v)]
           /\ queue' = IF control = "Material" THEN queue
                       ELSE updateSceneGPU(scenePrimitives')
           /\ gpuScene' = gpuScene
           /\ details' = ControlPanel(prim, control, axis, v)
    /\ UNCHANGED <<selectedPrimitiveIndex, listRows, pc, device, sceneBuffer, pipeline, pass>>

\* oninput / onchange of one control of the details panel, then the callback
\* buildPrimitiveControls gave it (which ends with updateSceneGPU()).
onControlInput(control, axis, v) ==
    /\ details.index >= 0
    /\ control \in Controls(scenePrimitives[details.index + 1].kind)
    /\ LET i    == details.index + 1
           prim == scenePrimitives[i]
       IN  /\ scenePrimitives' = [scenePrimitives EXCEPT ![i] = ControlEffect(prim, control, axis, v)]
           /\ queue' = updateSceneGPU(scenePrimitives')
           /\ gpuScene' = WriteLands(scenePrimitives')
           /\ details' = ControlPanel(prim, control, axis, v)
    /\ UNCHANGED <<selectedPrimitiveIndex, listRows, pc, device, sceneBuffer, pipeline, pass>>

-----------------------------------------------------------------------------
(* Start-up, frames and the GPU queue                                       *)

\* main(): loadDefaultShader() has settled; resizeCanvas(), buildSceneEditorUI(),
\* then initWebGPU() up to its first await (or its return when there is no
\* navigator.gpu).
main_afterFetch(gpuSupported) ==
    /\ pc = "fetch"
    /\ selectedPrimitiveIndex' = EnsureSelection(scenePrimitives, selectedPrimitiveIndex)
    /\ listRows' = renderObjectList(scenePrimitives)
    /\ details' = renderObjectDetails(scenePrimitives, selectedPrimitiveIndex')
    /\ pc' = IF gpuSupported THEN "adapter" ELSE "failed"
    /\ UNCHANGED <<scenePrimitives, device, sceneBuffer, pipeline, queue, gpuScene, pass>>

\* initWebGPU: requestAdapter() has settled.
initWebGPU_afterAdapter(adapter) ==
    /\ pc = "adapter"
    /\ pc' = IF adapter THEN "device" ELSE "failed"
    /\ UNCHANGED <<editorVars, device, sceneBuffer, pipeline, queue, gpuScene, pass>>

\* A mutation: the first upload is the scene the script started with.
initWebGPU_afterDevice_initialScene ==
    /\ pc = "device"
    /\ device' = TRUE
    /\ sceneBuffer' = TRUE
    /\ gpuScene' = NewArrayBuffer(SCENE_SIZE)
    /\ queue' = Append(queue, WriteOp(buildSceneData(InitialScene)))
    /\ pc' = "compile"
    /\ UNCHANGED <<editorVars, pipeline, pass>>

\* initWebGPU: requestDevice() has settled; the buffers are created, the
\* scene as it is now is uploaded, and compileShader runs up to its await.
\* createBuffer gives zero-filled memory.
initWebGPU_afterDevice ==
    /\ pc = "device"
    /\ device' = TRUE
    /\ sceneBuffer' = TRUE
    /\ gpuScene' = NewArrayBuffer(SCENE_SIZE)
    /\ queue' = Append(queue, WriteOp(buildSceneData(scenePrimitives)))
    /\ pc' = "compile"
    /\ UNCHANGED <<editorVars, pipeline, pass>>

\* render(): without a pipeline it only re-arms requestAnimationFrame; with
\* one it submits a render pass that reads the scene buffer.  (The write of
\* the camera uniforms goes to another buffer.)
render(havePipeline) ==
    IF havePipeline THEN Append(queue, PassOp(scenePrimitives)) ELSE queue

\* compileShader: getCompilationInfo() has settled, with or without errors;
\* initWebGPU returns true and main() calls render() for the first time.
compileShader_done(ok) ==
    /\ pc = "compile"
    /\ pipeline' = ok
    /\ pc' = "running"
    /\ queue' = render(ok)
    /\ UNCHANGED <<editorVars, device, sceneBuffer, gpuScene, pass>>

\* compileBtn.onclick (or Ctrl+Enter) once the program runs: compileShader
\* again; with errors it returns before it touches the pipeline, and a
\* pipeline built anew is a pipeline as before.
compileBtn_onclick(ok) ==
    /\ pc = "running"
    /\ ok
    /\ ~pipeline
    /\ pipeline' = TRUE
    /\ UNCHANGED <<editorVars, pc, device, sceneBuffer, queue, gpuScene, pass>>

\* A requestAnimationFrame callback.
frame ==
    /\ pc = "running"
    /\ queue' = render(pipeline)
    /\ UNCHANGED <<editorVars, pc, device, sceneBuffer, pipeline, gpuScene, pass>>

\* The GPU executes the queue in order, one operation at a time.
gpuWrite ==
    /\ pass = << >>
    /\ queue # << >>
    /\ Head(queue).op = "write"
    /\ gpuScene' = Head(queue).data
    /\ queue' = Tail(queue)
    /\ UNCHANGED <<editorVars, pc, device, sceneBuffer, pipeline, pass>>

gpuBeginPass ==
    /\ pass = << >>
    /\ queue # << >>
    /\ Head(queue).op = "pass"
    /\ pass' = << [list |-> Head(queue).list, left |-> Fragments, seen |-> {}] >>
    /\ queue' = Tail(queue)
    /\ UNCHANGED <<editorVars, pc, device, sceneBuffer, pipeline, gpuScene>>

\* One invocation of fs_main reads the scene uniform.
gpuFragment ==
    /\ pass # << >>
    /\ pass[1].left > 0
    /\ pass' = << [pass[1] EXCEPT !.left = @ - 1, !.seen = @ \cup {gpuScene}] >>
    /\ UNCHANGED <<editorVars, pc, device, sceneBuffer, pipeline, queue, gpuScene>>

gpuEndPass ==
    /\ pass # << >>
    /\ pass[1].left = 0
    /\ pass' = << >>
    /\ UNCHANGED <<editorVars, pc, device, sceneBuffer, pipeline, queue, gpuScene>>

-----------------------------------------------------------------------------
(* Specification SpecEncode: buildSceneData applied to bounded lists        *)

\* The list the editor reaches by adding kinds 0, 1, 2, ... to the initial scene.
PatternA ==
    [i \in 1..MaxLen |->
        IF i <= 2 THEN InitialScene[i] ELSE makeDefaultPrimitive((i - 3) % 7)]

\* Entries that all differ, with negative numbers, numbers that binary32
\* cannot hold exactly, and kinds outside the seven defined ones.
PatternB ==
    [i \in 1..MaxLen |->
        Prim(i - 2, i % 5, <<-(25 * i), 10 * i, 0>>, 5 * i, <<i, 0, -i, 100>>)]

InputLists ==
    { SubSeq(pat, 1, n) : pat \in {PatternA, PatternB}, n \in 0..MaxLen }

EncodeIdle ==
    /\ encIn = << >>
    /\ encOut = NoBuffer
    /\ encMemo = NoCall

\* The state main.js is in when the script has been evaluated and main() waits
\* for the shader fetch.
ProgramStart ==
    /\ scenePrimitives = InitialScene
    /\ selectedPrimitiveIndex = 1
    /\ listRows = 0
    /\ details = NoDetails
    /\ pc = "fetch"
    /\ device = FALSE
    /\ sceneBuffer = FALSE
    /\ pipeline = FALSE
    /\ queue = << >>
    /\ gpuScene = NoBuffer
    /\ pass = << >>
    /\ edits = 0
    /\ lastEvent = NoEvent

\* render has not been called: no ray, no march yet.
NoPixel ==
    [status |-> "idle", scene |-> << >>, ro |-> << >>, rd |-> << >>,
     mask |-> << >>, depth |-> 0, iterations |-> 0,
     result |-> [q |-> 0, mat_id |-> -1, steps |-> 0, end |-> "none"],
     hit_pos |-> << >>, normal |-> << >>,
     shadow |-> [q |-> 0, mat_id |-> -1, steps |-> 0, end |-> "none"],
     shaded |-> FALSE, exit |-> "none", evals |-> 0, color |-> << >>]

\* The camera as the module's top level leaves it (milliradians for the
\* angles, thousandths for lengths and directions): camPos, camDir, camTarget,
\* camDist, camYaw, camPitch, isDragging, dragMode ("null" for null), lastX,
\* lastY; event is the mouse event that arrived last and events counts them.
NoMouseEvent ==
    [type |-> "none", button |-> 0, altKey |-> FALSE, shiftKey |-> FALSE,
     ctrlKey |-> FALSE, onCanvas |-> FALSE]

CameraStart ==
    [camPos |-> <<0, 2000, 5000>>, camDir |-> <<0, -300, -1000>>,
     camTarget |-> <<0, 0, 0>>, camDist |-> 4000, camYaw |-> 0,
     camPitch |-> 500,
     isDragging |-> FALSE, dragMode |-> "null", lastX |-> 0, lastY |-> 0,
     event |-> NoMouseEvent, events |-> 0]

\* ray_march has not been called; st holds the loop's variables as they are
\* before its first iteration.
MarchIdle ==
    [status |-> "idle", scene |-> << >>, ro |-> << >>, rd |-> << >>,
     st |-> [q |-> 0, mat_id |-> -1, steps |-> 0, end |-> "run"]]

DistIdle ==
    /\ distIn = NoCall
    /\ distOut = NoCall
    /\ pixel = NoPixel
    /\ fresnelIn = NoCall
    /\ fresnelOut = NoCall
    /\ march = MarchIdle
    /\ camera = CameraStart

InitEncode == EncodeIdle /\ DistIdle /\ ProgramStart

\* One call buildSceneData(list).
CallEncode ==
    \E list \in InputLists :
        /\ encIn' = list
        /\ encOut' = buildSceneData(list)
        /\ UNCHANGED <<encMemo, editorVars, gpuVars, edits, lastEvent, distVars>>

\* The caller keeps the latest argument and result for a later comparison.
Remember ==
    /\ encOut # NoBuffer
    /\ encMemo' = <<encIn, encOut>>
    /\ UNCHANGED <<encIn, encOut, editorVars, gpuVars, edits, lastEvent, distVars>>

NextEncode == CallEncode \/ Remember

SpecEncode == InitEncode /\ [][NextEncode]_vars

-----------------------------------------------------------------------------
(* Reading a buffer back                                                    *)

\* The word at a byte offset (a multiple of 4) of a buffer.
WordAt(buffer, byteOffset) == buffer[byteOffset \div 4 + 1]

InBuffer(buffer, byteOffset) == byteOffset + 4 <= ByteLength(buffer)

\* The words a list entry is stored as: u32 kind, u32 materialId, two zero
\* words, then center.xyz, param0 and params1 as binary32.
StoredWords(p) ==
    << Uint32Bytes(p.kind), Uint32Bytes(p.materialId), ZeroWord, ZeroWord,
       Float32Bytes(p.center[1]), Float32Bytes(p.center[2]),
       Float32Bytes(p.center[3]), Float32Bytes(p.param0),
       Float32Bytes(p.params1[1]), Float32Bytes(p.params1[2]),
       Float32Bytes(p.params1[3]), Float32Bytes(p.params1[4]) >>

\* Record i of a buffer, read with a given header size and record size, as
\* far as the host fields go (12 words).
RecordHolds(buffer, headerSize, recordSize, i, p) ==
    \A k \in 0..11 :
        /\ InBuffer(buffer, headerSize + i * recordSize + 4 * k)
        /\ WordAt(buffer, headerSize + i * recordSize + 4 * k) = StoredWords(p)[k + 1]

\* The evaluator's view of the uniform: Scene.count at byte 0 and
\* Scene.primitives[i] at byte 32 + 64 * i, as header, center_param0, params1
\* (params2 follows at +48).
WgslRecordOffset(i) == WGSL_SCENE_HEADER_SIZE + i * WGSL_PRIMITIVE_SIZE

DecodeField(buffer, i, k) ==
    IF InBuffer(buffer, WgslRecordOffset(i) + 4 * k)
    THEN WordAt(buffer, WgslRecordOffset(i) + 4 * k)
    ELSE << >>

-----------------------------------------------------------------------------
(* C1..C5: the encoder                                                      *)

Encoded == encOut # NoBuffer

\* C1: for a list of any length L, buildSceneData stores min(L, MAX_PRIMS) in
\* word 0, stores entries 0..min(L, MAX_PRIMS)-1 in list order in the first
\* records, and leaves every word after those records as allocated (zero):
\* entries at index >= MAX_PRIMS leave nothing in the buffer.
C1_Truncation ==
    Encoded =>
        LET L == Len(encIn)
            n == IF L < MAX_PRIMS THEN L ELSE MAX_PRIMS
        IN  /\ WordAt(encOut, 0) = <<n, 0, 0, 0>>
            /\ \A i \in 0..(n - 1) :
                 RecordHolds(encOut, SCENE_HEADER_SIZE, PRIMITIVE_SIZE, i, encIn[i + 1])
            /\ \A w \in 1..Len(encOut) :
                 4 * (w - 1) >= SCENE_HEADER_SIZE + n * PRIMITIVE_SIZE => encOut[w] = ZeroWord
            /\ (L > MAX_PRIMS =>
                 \A j \in (MAX_PRIMS + 1)..L :
                   \A i \in 0..(MAX_PRIMS - 1) :
                     encIn[j] # encIn[i + 1] =>
                       ~RecordHolds(encOut, SCENE_HEADER_SIZE, PRIMITIVE_SIZE, i, encIn[j]))

C1_Witness == Encoded /\ Len(encIn) > MAX_PRIMS

\* C2: the returned buffer has exactly 32 + 16 * 64 = 1056 bytes whatever the
\* length of the list.
C2_BufferSize ==
    Encoded => ByteLength(encOut) = WGSL_SCENE_HEADER_SIZE + WGSL_MAX_PRIMS * WGSL_PRIMITIVE_SIZE

\* C3: the record of primitive i < count starts at byte 32 + 64 * i and holds
\* kind, materialId, two zero words, center.xyz, param0 and params1 in its
\* first twelve words.
C3_RecordLayout ==
    Encoded =>
        \A i \in 0..(Min(Len(encIn), MAX_PRIMS) - 1) :
            RecordHolds(encOut, 32, 64, i, encIn[i + 1])

\* C4: for a list no longer than MAX_PRIMS, reading the buffer through the
\* evaluator's Scene/Primitive layout returns, for every i < length, the
\* kind, materialId, center, param0 and params1 that list entry i was stored
\* with (compared as stored bits).
C4_RoundTrip ==
    (Encoded /\ Len(encIn) <= MAX_PRIMS) =>
        \A i \in 0..(Len(encIn) - 1) :
            \A k \in 0..11 :
                DecodeField(encOut, i, k) = StoredWords(encIn[i + 1])[k + 1]

-----------------------------------------------------------------------------
(* Specification Spec: the program from start-up on, with a bounded number  *)
(* of editor events                                                         *)

\* What the user can pick in #primitive-kind-select and type into controls.
AddKinds == {SPHERE, PLANE, BOX, ROUNDED_BOX, CYLINDER, TORUS, CAPSULE}
UpdateValues == {30}
MaterialChoices == {MAT_GLASS}
ControlNames == {"Position", "PointA", "Params1Vec", "Params1X", "Param0", "Material"}
ControlAxes(control) ==
    IF control \in {"Position", "PointA", "Params1Vec"} THEN 1..3 ELSE {1}
ControlValues(control) ==
    IF control = "Material" THEN MaterialChoices ELSE UpdateValues

QueueRoom == Len(queue) < MaxQueue

Init == EncodeIdle /\ DistIdle /\ ProgramStart

Quiet == UNCHANGED <<encVars, distVars, lastEvent>>

\* An editor event: lastEvent keeps which one, its argument and the length
\* the list had when it arrived.
Event(op, arg) ==
    /\ lastEvent' = [op |-> op, arg |-> arg, len |-> Len(scenePrimitives)]
    /\ edits' = edits + 1
    /\ UNCHANGED <<encVars, distVars>>

Add ==
    /\ edits < MaxEdits
    /\ QueueRoom
    /\ \E kind \in AddKinds : addPrimitive(kind) /\ Event("add", kind)

Remove ==
    /\ edits < MaxEdits
    /\ QueueRoom
    /\ \E index \in 0..(MAX_PRIMS - 1) :
         removeBtn_onclick(index) /\ Event("remove", index)

Select ==
    /\ edits < MaxEdits
    /\ \E index \in 0..(MAX_PRIMS - 1) :
         row_onclick(index) /\ Event("select", index)

Update ==
    /\ edits < MaxEdits
    /\ QueueRoom
    /\ \E control \in ControlNames :
         \E axis \in ControlAxes(control) :
           \E v \in ControlValues(control) :
             onControlInput(control, axis, v) /\ Event("update", details.index)

FetchDone ==
    /\ \E gpuSupported \in BOOLEAN : main_afterFetch(gpuSupported)
    /\ UNCHANGED edits
    /\ Quiet

AdapterDone ==
    /\ \E adapter \in BOOLEAN : initWebGPU_afterAdapter(adapter)
    /\ UNCHANGED edits
    /\ Quiet

DeviceDone ==
    /\ initWebGPU_afterDevice
    /\ UNCHANGED edits
    /\ Quiet

CompileDone ==
    /\ \E ok \in BOOLEAN : compileShader_done(ok)
    /\ UNCHANGED edits
    /\ Quiet

Recompile ==
    /\ \E ok \in BOOLEAN : compileBtn_onclick(ok)
    /\ UNCHANGED edits
    /\ Quiet

Frame ==
    /\ QueueRoom
    /\ frame
    /\ UNCHANGED edits
    /\ Quiet

GpuWrite == gpuWrite /\ UNCHANGED edits /\ Quiet

GpuBeginPass == gpuBeginPass /\ UNCHANGED edits /\ Quiet

GpuFragment == gpuFragment /\ UNCHANGED edits /\ Quiet

GpuEndPass == gpuEndPass /\ UNCHANGED edits /\ Quiet

Next ==
    \/ Add
    \/ Remove
    \/ Select
    \/ Update
    \/ FetchDone
    \/ AdapterDone
    \/ DeviceDone
    \/ CompileDone
    \/ Recompile
    \/ Frame
    \/ GpuWrite
    \/ GpuBeginPass
    \/ GpuFragment
    \/ GpuEndPass

Spec == Init /\ [][Next]_vars

-----------------------------------------------------------------------------
(* Specification SpecEditor: the editor on lists of every length up to the  *)
(* capacity, the program running and the GPU idle                           *)

\* The program after start-up and after n - 2 clicks on "add" that went
\* through the kinds in turn: the list, the selection addPrimitive left, both
\* panels as buildSceneEditorUI rendered them, every upload executed.
AfterAdds(n) ==
    LET list == SubSeq(PatternA, 1, n)
    IN  /\ scenePrimitives = list
        /\ selectedPrimitiveIndex = n - 1
        /\ listRows = renderObjectList(list)
        /\ details = renderObjectDetails(list, n - 1)
        /\ pc = "running"
        /\ device = TRUE
        /\ sceneBuffer = TRUE
        /\ pipeline = TRUE
        /\ queue = << >>
        /\ gpuScene = buildSceneData(list)
        /\ pass = << >>
        /\ edits = 0
        /\ lastEvent = NoEvent

InitEditor ==
    /\ EncodeIdle
    /\ DistIdle
    /\ \E n \in {Len(InitialScene), MAX_PRIMS \div 2 + 1, MAX_PRIMS - 1, MAX_PRIMS} :
         AfterAdds(n)

\* The GPU is idle when an editor event arrives: it has executed the upload
\* of the event before.
EdAdd == queue = << >> /\ Add

EdRemove == queue = << >> /\ Remove

EdSelect == queue = << >> /\ Select

EdUpdate == queue = << >> /\ Update

\* "add" with #primitive-kind-select holding a value that is no case label
\* of makeDefaultPrimitive (parseInt gives NaN on an empty select, or the
\* page's script changed the options): the switch takes its default branch.
OtherKinds == {CAPSULE + 1}

EdAddOther ==
    /\ queue = << >>
    /\ edits < MaxEdits
    /\ QueueRoom
    /\ \E kind \in OtherKinds : addPrimitive(kind) /\ Event("add", kind)

NextEditor ==
    \/ EdAdd
    \/ EdAddOther
    \/ EdRemove
    \/ EdSelect
    \/ EdUpdate
    \/ GpuWrite

SpecEditor == InitEditor /\ [][NextEditor]_vars

-----------------------------------------------------------------------------
(* Claims about the editor                                                  *)

\* C6: a click on "add" appends exactly one primitive, the default one of the
\* chosen kind, at the end of the list when the list has fewer than MAX_PRIMS
\* entries, and changes neither the list nor the selection nor the buffer
\* (the uploads issued and the bytes in GPU memory) when it has MAX_PRIMS;
\* and the list never has more than MAX_PRIMS entries.
C6_AddBounded ==
    /\ [](Len(scenePrimitives) <= MAX_PRIMS)
    /\ [][Add =>
            IF Len(scenePrimitives) < MAX_PRIMS
            THEN scenePrimitives' =
                   Append(scenePrimitives, makeDefaultPrimitive(lastEvent'.arg))
            ELSE UNCHANGED <<scenePrimitives, selectedPrimitiveIndex,
                             queue, gpuScene>>]_vars

\* An add arrived when the list was full, and the list is still full.
C6_Witness ==
    /\ lastEvent.op = "add"
    /\ lastEvent.len = MAX_PRIMS
    /\ Len(scenePrimitives) = MAX_PRIMS

\* C7: a click on the remove button of row index, on a list of length L with
\* 0 <= index < L, leaves a list of length L - 1 whose entries before index
\* are unchanged and whose entry j - 1 is the former entry j for every
\* j > index.
C7_RemoveShifts ==
    [][Remove =>
         LET index == lastEvent'.arg
             L     == Len(scenePrimitives)
         IN  /\ 0 <= index /\ index < L
             /\ Len(scenePrimitives') = L - 1
             /\ \A j \in 0..(index - 1) :
                  scenePrimitives'[j + 1] = scenePrimitives[j + 1]
             /\ \A j \in (index + 1)..(L - 1) :
                  scenePrimitives'[j] = scenePrimitives[j + 1]]_vars

\* An entry with entries on both sides of it was removed.
C7_Witness ==
    /\ lastEvent.op = "remove"
    /\ 0 < lastEvent.arg
    /\ lastEvent.arg + 1 < lastEvent.len
    /\ Len(scenePrimitives) = lastEvent.len - 1

-----------------------------------------------------------------------------
(* Claims about uploads and frames                                          *)

IsWrite(o) == o.op = "write"

PendingWrites == SelectSeq(queue, IsWrite)

\* The bytes of the scene buffer once the writes issued so far have been
\* executed: what any operation issued from now on finds there.
SceneBufferContents ==
    IF PendingWrites = << >> THEN gpuScene
    ELSE PendingWrites[Len(PendingWrites)].data

\* C8: once the scene buffer exists, every step that changes the primitive
\* list (an add that went through, a remove, an update through a control)
\* also issues a write of buildSceneData(the new list) over the whole buffer;
\* so the buffer's contents are always buildSceneData(current list), and the
\* words after the records of the current entries are zero: nothing of a
\* removed entry is left.
C8_BufferFollowsList ==
    /\ [][(sceneBuffer /\ scenePrimitives' # scenePrimitives) =>
            queue' = Append(queue, WriteOp(buildSceneData(scenePrimitives')))]_vars
    /\ [](sceneBuffer =>
            LET contents == SceneBufferContents
                used     == headerWords + Len(scenePrimitives) * wordsPerPrimitive
            IN  /\ contents = buildSceneData(scenePrimitives)
                /\ Len(contents) * 4 = SCENE_SIZE
                /\ \A w \in (used + 1)..Len(contents) : contents[w] = ZeroWord)

\* The first upload has been executed, and the upload of a remove that came
\* after it is waiting in the queue.
C8_Witness ==
    /\ sceneBuffer
    /\ lastEvent.op = "remove"
    /\ gpuScene # NewArrayBuffer(SCENE_SIZE)
    /\ PendingWrites # << >>
    /\ Len(scenePrimitives) < Len(InitialScene)
    /\ SceneBufferContents # gpuScene

-----------------------------------------------------------------------------
(* The evaluator (WGSL): signed distances and get_dist                      *)
(*                                                                          *)
(* An f32 is held as an integer count of hundredths, as on the host; a      *)
(* product of two of them is in units of 1e-4 and is brought back by the    *)
(* division or square root that follows it in the shader.  Square roots and *)
(* quotients are rounded down.  A material id is a plain integer.           *)

MAX_DIST == 100 * 100
UNKNOWN_DIST == 1000000 * 100

Abs(x) == IF x < 0 THEN -x ELSE x
Max(a, b) == IF a > b THEN a ELSE b

RECURSIVE SqrtBetween(_, _, _)
SqrtBetween(n, lo, hi) ==
    IF lo >= hi THEN lo
    ELSE LET mid == (lo + hi + 1) \div 2
         IN  IF mid * mid <= n THEN SqrtBetween(n, mid, hi)
             ELSE SqrtBetween(n, lo, mid - 1)

sqrt(n) == SqrtBetween(n, 0, Min(n, 46340))

dot3(a, b) == a[1] * b[1] + a[2] * b[2] + a[3] * b[3]
length3(v) == sqrt(dot3(v, v))
length2(x, y) == sqrt(x * x + y * y)
sub3(a, b) == <<a[1] - b[1], a[2] - b[2], a[3] - b[3]>>
clamp(x, lo, hi) == Max(lo, Min(x, hi))

\* struct Primitive
Primitive(kind, material, center, param0, params1, params2) ==
    [header        |-> <<kind, material, 0, 0>>,
     center_param0 |-> <<center[1], center[2], center[3], param0>>,
     params1       |-> params1,
     params2       |-> params2]

sd_sphere(p, s) == length3(sub3(p, s.center_param0)) - s.center_param0[4]

\* dot(p, normalize(n)) + h; normalize of the zero vector has no defined
\* value and no scene of the model has one.
sd_plane(p, pl) ==
    LET n == pl.params1
        h == pl.center_param0[4]
    IN  (dot3(p, n) \div length3(n)) + h

\* length(max(q, 0)) + min(max(q.x, max(q.y, q.z)), 0)
BoxDistance(q) ==
    length3(<<Max(q[1], 0), Max(q[2], 0), Max(q[3], 0)>>)
      + Min(Max(q[1], Max(q[2], q[3])), 0)

sd_box(p, b) ==
    LET c == b.center_param0
        half_size == b.params1
        q == <<Abs(p[1] - c[1]) - half_size[1],
               Abs(p[2] - c[2]) - half_size[2],
               Abs(p[3] - c[3]) - half_size[3]>>
    IN  BoxDistance(q)

sd_rounded_box(p, rb) == sd_box(p, rb) - rb.center_param0[4]

sd_cylinder(p, cy) ==
    LET c == cy.center_param0
        radius == cy.params1[1]
        height == cy.center_param0[4]
        qx == Abs(length2(p[1] - c[1], p[3] - c[3])) - radius
        qy == Abs(p[2] - c[2]) - height \div 2
    IN  Min(Max(qx, qy), 0) + length2(Max(qx, 0), Max(qy, 0))

sd_torus(p, t) ==
    LET c == t.center_param0
        R == t.center_param0[4]
        r == t.params1[1]
    IN  length2(length2(p[1] - c[1], p[3] - c[3]) - R, p[2] - c[2]) - r

\* h = clamp(dot(pa, ba) / dot(ba, ba), 0, 1), held in hundredths; a == b has
\* no defined value and no scene of the model has it.
sd_capsule(p, c) ==
    LET a == c.params1
        b == c.params2
        radius == c.center_param0[4]
        pa == sub3(p, a)
        ba == sub3(b, a)
        h == clamp((dot3(pa, ba) * 100) \div dot3(ba, ba), 0, 100)
    IN  length3(<<pa[1] - (ba[1] * h) \div 100,
                  pa[2] - (ba[2] * h) \div 100,
                  pa[3] - (ba[3] * h) \div 100>>) - radius

\* A mutation: an unknown kind is given the distance 0.
sd_primitive_defaultZero(p, prim) ==
    IF prim.header[1] \in SPHERE..CAPSULE
    THEN CASE prim.header[1] = SPHERE      -> sd_sphere(p, prim)
           [] prim.header[1] = PLANE       -> sd_plane(p, prim)
           [] prim.header[1] = BOX         -> sd_box(p, prim)
           [] prim.header[1] = ROUNDED_BOX -> sd_rounded_box(p, prim)
           [] prim.header[1] = CYLINDER    -> sd_cylinder(p, prim)
           [] prim.header[1] = TORUS       -> sd_torus(p, prim)
           [] prim.header[1] = CAPSULE     -> sd_capsule(p, prim)
    ELSE 0

sd_primitive(p, prim) ==
    CASE prim.header[1] = SPHERE      -> sd_sphere(p, prim)
      [] prim.header[1] = PLANE       -> sd_plane(p, prim)
      [] prim.header[1] = BOX         -> sd_box(p, prim)
      [] prim.header[1] = ROUNDED_BOX -> sd_rounded_box(p, prim)
      [] prim.header[1] = CYLINDER    -> sd_cylinder(p, prim)
      [] prim.header[1] = TORUS       -> sd_torus(p, prim)
      [] prim.header[1] = CAPSULE     -> sd_capsule(p, prim)
      [] OTHER                        -> UNKNOWN_DIST

\* A mutation: the running best is replaced on a tie as well.
Closer_orEqual(dist, best) == dist <= best

\* if dist < res.x
Closer(dist, best) == dist < best

\* The loop of get_dist from index i on, res being the running best.
RECURSIVE get_dist_from(_, _, _, _)
get_dist_from(scene, p, i, res) ==
    IF i >= scene.count THEN res
    ELSE LET prim == scene.primitives[i + 1]
             dist == sd_primitive(p, prim)
         IN  get_dist_from(scene, p, i + 1,
                 IF Closer(dist, res[1]) THEN <<dist, prim.header[2]>> ELSE res)

\* A mutation: the running best starts as the first slot of the array.
get_dist_seeded(scene, p) ==
    get_dist_from(scene, p, 0,
        <<Min(MAX_DIST, sd_primitive(p, scene.primitives[1])),
          scene.primitives[1].header[2]>>)

\* A mutation: the loop runs over the whole array, whatever the count.
get_dist_wholeArray(scene, p) ==
    get_dist_from([scene EXCEPT !.count = Len(scene.primitives)], p, 0,
                  <<MAX_DIST, -1>>)

get_dist(scene, p) == get_dist_from(scene, p, 0, <<MAX_DIST, -1>>)

-----------------------------------------------------------------------------
(* Specification SpecDist: get_dist applied to bounded scenes and points    *)

Zero4 == <<0, 0, 0, 0>>

\* Primitives a scene uniform can hold: every kind, an unknown kind, and
\* surfaces placed so that several of them are equally far from some point.
DistPrimitives ==
    { Primitive(SPHERE, MAT_METAL, <<0, 0, 0>>, 100, Zero4, Zero4),
      Primitive(SPHERE, MAT_GLASS, <<400, 0, 0>>, 100, Zero4, Zero4),
      Primitive(SPHERE, MAT_WATER, <<0, 0, 0>>, 100, Zero4, Zero4),
      Primitive(PLANE, MAT_GROUND, <<0, 0, 0>>, 100, <<0, 100, 0, 0>>, Zero4),
      Primitive(BOX, MAT_DIFFUSE, <<0, 300, 0>>, 0, <<100, 100, 100, 0>>, Zero4),
      Primitive(ROUNDED_BOX, MAT_GLASS, <<0, -300, 0>>, 20, <<80, 80, 80, 0>>, Zero4),
      Primitive(CYLINDER, MAT_METAL, <<0, 0, 400>>, 200, <<100, 0, 0, 0>>, Zero4),
      Primitive(TORUS, MAT_WATER, <<0, 0, -400>>, 100, <<30, 0, 0, 0>>, Zero4),
      Primitive(CAPSULE, MAT_DIFFUSE, <<0, 0, 0>>, 50,
                <<-400, 0, 0, 0>>, <<-400, 200, 0, 0>>),
      Primitive(CAPSULE + 3, MAT_WATER, <<0, 0, 0>>, 100, Zero4, Zero4) }

\* struct Scene: the count and the first MaxScene slots of the array (the
\* slots from count on hold something too).
DistScenes ==
    { [count |-> n, primitives |-> prims] :
        n \in 0..MaxScene, prims \in [1..MaxScene -> DistPrimitives] }

DistPoints == { <<200, 0, 0>>, <<0, 0, 0>>, <<0, 200, 0>> }

InitDist == EncodeIdle /\ DistIdle /\ ProgramStart

\* One call get_dist(p) with the uniform holding scene.
CallDist ==
    /\ distOut = NoCall
    /\ \E scene \in DistScenes :
         \E p \in DistPoints :
            /\ distIn' = <<scene, p>>
            /\ distOut' = get_dist(scene, p)
    /\ UNCHANGED <<encVars, editorVars, gpuVars, edits, lastEvent, pixel,
                   fresnelIn, fresnelOut, march,
          camera>>

NextDist == CallDist

SpecDist == InitDist /\ [][NextDist]_vars

\* The active primitives that attain the least distance to the point of the
\* latest call.
\* The indices at which the distances d are least.
LeastOf(d) == { i \in DOMAIN d : \A j \in DOMAIN d : d[i] <= d[j] }

Minimisers ==
    LeastOf([i \in 1..distIn[1].count |->
                sd_primitive(distIn[2], distIn[1].primitives[i])])

LeastIndex(S) == CHOOSE i \in S : \A j \in S : i <= j

\* The material returned is that of the lowest of the indices in least, if
\* they are two or more and their distance is below MAX_DIST.
TieBrokenByIndex(least) ==
    (/\ Cardinality(least) >= 2
     /\ sd_primitive(distIn[2], distIn[1].primitives[LeastIndex(least)])
          < MAX_DIST)
    => distOut[2] = distIn[1].primitives[LeastIndex(least)].header[2]

\* C10: when two or more active primitives attain the same least distance to
\* the point and that distance is below MAX_DIST, get_dist returns the
\* material id of the one with the lowest index.
C10_TieBreak == distOut # NoCall => TieBrokenByIndex(Minimisers)

\* A call where primitives of different materials tie for the least distance.
C10_Witness ==
    /\ distOut # NoCall
    /\ distOut[1] < MAX_DIST
    /\ \E i, j \in Minimisers :
         distIn[1].primitives[i].header[2] # distIn[1].primitives[j].header[2]

\* C11: with count = 0, get_dist returns (MAX_DIST, -1) at every point,
\* whatever the slots of the array hold.
C11_EmptyScene ==
    (distOut # NoCall /\ distIn[1].count = 0) => distOut = <<MAX_DIST, -1>>

\* A call with count = 0 on an array whose first slot is a surface that is
\* nearer than MAX_DIST to the point.
C11_Witness ==
    /\ distOut # NoCall
    /\ distIn[1].count = 0
    /\ sd_primitive(distIn[2], distIn[1].primitives[1]) < MAX_DIST

KnownKind(prim) == prim.header[1] \in SPHERE..CAPSULE

\* The scene without its active primitive i (1-based): the later slots move
\* down by one and the count drops by one.
SceneWithout(scene, i) ==
    [count |-> scene.count - 1,
     primitives |->
        [k \in 1..Len(scene.primitives) |->
            IF k < i THEN scene.primitives[k]
            ELSE IF k < Len(scene.primitives) THEN scene.primitives[k + 1]
            ELSE scene.primitives[k]]]

\* C12: an active primitive whose kind is none of the seven defined ones has
\* the distance 1e6 and is never the minimiser: get_dist returns what it
\* returns for the scene without that primitive.
C12_UnknownKind ==
    distOut # NoCall =>
      \A i \in 1..distIn[1].count :
         ~KnownKind(distIn[1].primitives[i]) =>
            /\ sd_primitive(distIn[2], distIn[1].primitives[i]) = UNKNOWN_DIST
            /\ distOut = get_dist(SceneWithout(distIn[1], i), distIn[2])

\* A call on a scene whose first active primitive is of an unknown kind and
\* whose other active primitive is a surface nearer than MAX_DIST.
C12_Witness ==
    /\ distOut # NoCall
    /\ distIn[1].count = 2
    /\ ~KnownKind(distIn[1].primitives[1])
    /\ KnownKind(distIn[1].primitives[2])
    /\ distOut[1] < MAX_DIST

\* The scene with every slot from count on overwritten by prim.
TailFilled(scene, prim) ==
    [scene EXCEPT !.primitives =
        [k \in 1..Len(scene.primitives) |->
            IF k <= scene.count THEN scene.primitives[k] ELSE prim]]

\* A primitive whose surface is at most 1.0 away from every point of the
\* model.
TailProbe == Primitive(SPHERE, MAT_METAL, <<0, 0, 0>>, 100, Zero4, Zero4)

\* C13: get_dist does not depend on the slots at index >= count: it returns
\* for a scene what it returns for the scene with those slots overwritten by
\* TailProbe.  The scenes of the model hold every primitive in those slots,
\* so any two scenes that agree on count and on the slots below count get
\* the same result.
C13_TailNeverRead ==
    distOut # NoCall =>
        get_dist(TailFilled(distIn[1], TailProbe), distIn[2]) = distOut

\* A call on a scene with an unused slot that holds a surface nearer to the
\* point than anything get_dist returned.
C13_Witness ==
    /\ distOut # NoCall
    /\ distIn[1].count < Len(distIn[1].primitives)
    /\ distIn[1].count > 0
    /\ sd_primitive(distIn[2], distIn[1].primitives[distIn[1].count + 1])
         < distOut[1]

-----------------------------------------------------------------------------
(* The evaluator (WGSL): ray_march                                          *)

MAX_STEPS == 256
MAX_BOUNCES == 16

\* SURF_DIST = 0.0001, in units of 1e-4.
SURF_DIST == 1

\* abs(dist_mat.x) < SURF_DIST, the distance being in hundredths.
IsSurface(dist) == Abs(dist) * 100 < SURF_DIST

\* ro + rd * q, the direction being in hundredths of its length.
ray_at(ro, rd, q) ==
    <<ro[1] + (rd[1] * q) \div 100,
      ro[2] + (rd[2] * q) \div 100,
      ro[3] + (rd[3] * q) \div 100>>

\* A mutation: the march adds the signed distance.
Advance_signed(q, dist) == q + dist

\* A mutation: the march steps twice the distance it measured.
Advance_overstep(q, dist) == q + 2 * Abs(dist)

\* q += abs(dist_mat.x)
Advance(q, dist) == q + Abs(dist)

\* One iteration of ray_march's loop on the loop's variables: q, mat_id, the
\* number of get_dist calls made so far, and which break was taken, if any
\* ("hit" is the break on abs(dist) < SURF_DIST, "miss" the break on
\* q > MAX_DIST alone, "run" no break yet).
march_step(scene, ro, rd, st) ==
    LET dist_mat == get_dist(scene, ray_at(ro, rd, st.q))
        q2       == Advance(st.q, dist_mat[1])
    IN  [q      |-> q2,
         mat_id |-> dist_mat[2],
         steps  |-> st.steps + 1,
         end    |-> IF IsSurface(dist_mat[1]) THEN "hit"
                    ELSE IF q2 > MAX_DIST THEN "miss" ELSE "run"]

\* n consecutive iterations of the loop, stopping at a break.  The iterations
\* are evaluated half by half so that the evaluation nests log2(n) deep.
RECURSIVE march_steps(_, _, _, _, _)
march_steps(scene, ro, rd, st, n) ==
    IF st.end # "run" \/ n = 0 THEN st
    ELSE IF n = 1 THEN march_step(scene, ro, rd, st)
    ELSE LET half == march_steps(scene, ro, rd, st, n \div 2)
         IN  march_steps(scene, ro, rd, half, n - n \div 2)

\* A mutation: the march has twice the iterations.
ray_march_twice(scene, ro, rd) ==
    LET st == march_steps(scene, ro, rd,
                          [q |-> 0, mat_id |-> -1, steps |-> 0, end |-> "run"],
                          2 * MAX_STEPS)
    IN  IF st.end = "run" THEN [st EXCEPT !.end = "budget"] ELSE st

\* for (var i = 0; i < MAX_STEPS; i++) { ... } return vec2(q, mat_id): the
\* loop running out of iterations is the end "budget".
ray_march(scene, ro, rd) ==
    LET st == march_steps(scene, ro, rd,
                          [q |-> 0, mat_id |-> -1, steps |-> 0, end |-> "run"],
                          MAX_STEPS)
    IN  IF st.end = "run" THEN [st EXCEPT !.end = "budget"] ELSE st

NoMarch == [q |-> 0, mat_id |-> -1, steps |-> 0, end |-> "none"]

-----------------------------------------------------------------------------
(* The evaluator (WGSL): normal, Fresnel, refraction, material colour and   *)
(* one iteration of render's bounce loop                                    *)
(*                                                                          *)
(* Lengths and directions are in hundredths; factors that multiply the mask *)
(* (the mask itself, Fresnel terms) are in units of 1e-4, so 10000 is 1.0.  *)

IOR_AIR == 100
IOR_GLASS == 150
IOR_WATER == 133

One == 100 * 100

add3(a, b) == <<a[1] + b[1], a[2] + b[2], a[3] + b[3]>>

\* v * f for a factor f in hundredths.
scale3(v, f) == <<(v[1] * f) \div 100, (v[2] * f) \div 100, (v[3] * f) \div 100>>

\* normalize(v); the zero vector has no defined direction.
normalize(v) ==
    LET len == length3(v)
    IN  <<(v[1] * 100) \div len, (v[2] * 100) \div len, (v[3] * 100) \div len>>

\* reflect(i, n) = i - 2 * dot(n, i) * n
reflect(i, n) ==
    LET d == 2 * dot3(n, i)
    IN  <<i[1] - (d * n[1]) \div One,
          i[2] - (d * n[2]) \div One,
          i[3] - (d * n[3]) \div One>>

\* get_normal: central differences of get_dist, six calls.  The offset e
\* (0.0001 in the shader) is one unit of the model's resolution.
get_normal(scene, p) ==
    LET d(q) == get_dist(scene, q)[1]
    IN  normalize(
          <<d(add3(p, <<1, 0, 0>>)) - d(sub3(p, <<1, 0, 0>>)),
            d(add3(p, <<0, 1, 0>>)) - d(sub3(p, <<0, 1, 0>>)),
            d(add3(p, <<0, 0, 1>>)) - d(sub3(p, <<0, 0, 1>>))>>)

NormalEvaluations == 2 * 3

\* r0 = pow((1 - ior_ratio) / (1 + ior_ratio), 2), in units of 1e-4.
fresnel_r0(ior_ratio) ==
    LET t == ((100 - ior_ratio) * One) \div (100 + ior_ratio)
    IN  (t * t) \div One

\* pow(x, 5) for x in hundredths, in units of 1e-4; pow(0, 5) is 0.
pow5(x) ==
    LET x2 == x * x
        x4 == (x2 * x2) \div One
    IN  (x4 * x) \div 100

\* A mutation: the power is taken of cos_theta, not of 1 - cos_theta.
fresnel_ofCosine(cos_theta, ior_ratio) ==
    LET r0 == fresnel_r0(ior_ratio)
    IN  r0 + ((One - r0) * pow5(cos_theta)) \div One

\* fresnel(cos_theta, ior_ratio), arguments in hundredths, result in 1e-4.
fresnel(cos_theta, ior_ratio) ==
    LET r0 == fresnel_r0(ior_ratio)
    IN  r0 + ((One - r0) * pow5(100 - cos_theta)) \div One

\* refract_ray(incident, normal, ior_ratio); the zero vector on total
\* internal reflection.
refract_ray(incident, normal, ior_ratio) ==
    LET cos_i  == (-dot3(incident, normal)) \div 100
        sin2_t == ((ior_ratio * ior_ratio) * (One - cos_i * cos_i)) \div One
        cos_t  == sqrt(One - sin2_t)
        k      == (ior_ratio * cos_i) \div 100 - cos_t
    IN  IF sin2_t > One THEN <<0, 0, 0>>
        ELSE add3(scale3(incident, ior_ratio), scale3(normal, k))

\* get_material_color(mat_id, p), in hundredths.
get_material_color(mat_id, p) ==
    CASE mat_id = MAT_GROUND ->
           IF (p[1] \div 100 + p[3] \div 100) % 2 = 0
           THEN <<90, 90, 90>> ELSE <<20, 20, 20>>
      [] mat_id = MAT_METAL   -> <<80, 85, 90>>
      [] mat_id = MAT_GLASS   -> <<90, 90, 100>>
      [] mat_id = MAT_WATER   -> <<80, 90, 100>>
      [] mat_id = MAT_DIFFUSE -> <<100, 50, 30>>
      [] OTHER                -> <<50, 50, 50>>

\* mask * f, componentwise, for factors f in hundredths.
mask_times(mask, f) ==
    <<(mask[1] * f[1]) \div 100, (mask[2] * f[2]) \div 100, (mask[3] * f[3]) \div 100>>

\* dot(mask, mask) < 0.001
Negligible(mask) == dot3(mask, mask) < One * 10

\* vec3<f32>(5.0, 8.0, -5.0)
light_pos == <<500, 800, -500>>

\* What one iteration of the bounce loop leaves: the next ray, the mask, and
\* whether (and why) the loop was left by a break.
Outcome(ro, rd, mask, exit) == [ro |-> ro, rd |-> rd, mask |-> mask, exit |-> exit]

\* A mutation: a mirror that keeps half of the mask and sends the ray back.
metal_hit_dim(rd, mask, hit_pos, normal) ==
    Outcome(add3(hit_pos, scale3(normal, 1)), scale3(rd, -100),
            mask_times(mask, <<50, 50, 50>>), "none")

\* if mat_id == MAT_METAL { ... }
metal_hit(rd, mask, hit_pos, normal) ==
    Outcome(add3(hit_pos, scale3(normal, 1)), reflect(rd, normal),
            mask_times(mask, <<80, 80, 80>>), "none")

\* else if mat_id == MAT_GLASS || mat_id == MAT_WATER { ... }
glass_hit(rd, mask, hit_pos, normal, mat_id, albedo) ==
    LET entering    == dot3(rd, normal) < 0
        n           == IF entering THEN normal ELSE scale3(normal, -100)
        ior         == IF mat_id = MAT_GLASS THEN IOR_GLASS ELSE IOR_WATER
        ior_ratio   == IF entering THEN (IOR_AIR * 100) \div ior
                       ELSE (ior * 100) \div IOR_AIR
        cos_theta   == Min((-dot3(rd, n)) \div 100, 100)
        fresnel_val == fresnel(cos_theta, ior_ratio)
        refract_dir == refract_ray(rd, n, ior_ratio)
        is_tir      == dot3(refract_dir, refract_dir) < 1
        through     == <<((One - fresnel_val) * albedo[1]) \div 100,
                         ((One - fresnel_val) * albedo[2]) \div 100,
                         ((One - fresnel_val) * albedo[3]) \div 100>>
    IN  IF is_tir
        THEN Outcome(add3(hit_pos, scale3(n, 1)), reflect(rd, n),
                     mask_times(mask, albedo), "none")
        ELSE Outcome(sub3(hit_pos, scale3(n, 1)), refract_dir,
                     <<(mask[1] * through[1]) \div One,
                       (mask[2] * through[2]) \div One,
                       (mask[3] * through[3]) \div One>>, "none")

\* A mutation: a diffuse hit keeps the mask and goes on like a mirror.
diffuse_hit_continues(ro, rd, mask, hit_pos, normal) ==
    metal_hit(rd, mask, hit_pos, normal)

\* else { ... mask = vec3(0.0); break; }
diffuse_hit(ro, rd, mask, hit_pos, normal) ==
    Outcome(ro, rd, <<0, 0, 0>>, "diffuse")

\* else { color += mask * get_sky(rd); mask = vec3(0.0); break; }
sky_miss(ro, rd) == Outcome(ro, rd, <<0, 0, 0>>, "miss")

\* One statement color += ...: the branch it stands in, the mask it
\* multiplies, and for the sky terms their weight (1e-4 units) and the
\* direction the sky is sampled in.  The lighting factors of the metal and
\* diffuse terms (albedo, diffuse, shadow) are not evaluated.
ColorTerm(branch, mask, weight, dir) ==
    [branch |-> branch, mask |-> mask, weight |-> weight, dir |-> dir]

\* A mutation: the reflected sky term is weighted with the mask the branch
\* leaves behind.
fresnel_sky_term_late(rd, mask, hit_pos, normal, mat_id, albedo) ==
    LET out == glass_hit(rd, mask, hit_pos, normal, mat_id, albedo)
    IN  ColorTerm("fresnel", out.mask, 0, out.rd)

\* color += mask * fresnel_val * get_sky(reflect_dir)
fresnel_sky_term(rd, mask, hit_pos, normal, mat_id, albedo) ==
    LET entering    == dot3(rd, normal) < 0
        n           == IF entering THEN normal ELSE scale3(normal, -100)
        ior         == IF mat_id = MAT_GLASS THEN IOR_GLASS ELSE IOR_WATER
        ior_ratio   == IF entering THEN (IOR_AIR * 100) \div ior
                       ELSE (ior * 100) \div IOR_AIR
        cos_theta   == Min((-dot3(rd, n)) \div 100, 100)
    IN  ColorTerm("fresnel", mask, fresnel(cos_theta, ior_ratio), reflect(rd, n))

\* if result.x < MAX_DIST
IsHit(result) == result.q < MAX_DIST

\* A mutation: the loop runs one iteration too many.
LoopRuns_offByOne(depth) == depth <= MAX_BOUNCES

\* depth < MAX_BOUNCES
LoopRuns(depth) == depth < MAX_BOUNCES

-----------------------------------------------------------------------------
(* Specification SpecRender: render's bounce loop on bounded scenes and rays. *)
(* The colour is kept as the sequence of the terms the statements color +=   *)
(* have added; nothing in the loop reads it.                                 *)

SphereAtOrigin(radius, material) ==
    Primitive(SPHERE, material, <<0, 0, 0>>, radius, Zero4, Zero4)

\* The plane y = 0.
FloorPlane(material) ==
    Primitive(PLANE, material, <<0, 0, 0>>, 0, <<0, 100, 0, 0>>, Zero4)

\* The planes x = 0 and x = w, facing each other.
WallAtZero(material) ==
    Primitive(PLANE, material, <<0, 0, 0>>, 0, <<100, 0, 0, 0>>, Zero4)

WallAt(w, material) ==
    Primitive(PLANE, material, <<0, 0, 0>>, w, <<-100, 0, 0, 0>>, Zero4)

SceneOf(prims) == [count |-> Len(prims), primitives |-> prims]

\* Two mirrors MAX_STEPS - 1 hundredths apart on a floor, and a ray that runs
\* from one to the other a hundredth above the floor: every march between
\* them converges on its last iterations.
Corridor ==
    [scene |-> SceneOf(<<FloorPlane(MAT_GROUND), WallAtZero(MAT_METAL),
                         WallAt(MAX_STEPS - 1, MAT_METAL)>>),
     ro |-> <<100, 1, 0>>, rd |-> <<100, 0, 0>>]

\* A glass slab one unit thick between two mirrors, and a ray that meets the
\* slab's upper face at a shallow angle (cos_theta = 0.07): most of the mask
\* goes to the reflected sky term, and what is refracted through the slab
\* then runs between the mirrors below it.
SlabCorridor ==
    [scene |-> SceneOf(<<Primitive(BOX, MAT_GLASS, <<0, 0, 0>>, 0,
                                   <<300, 50, 300, 0>>, Zero4),
                         Primitive(PLANE, MAT_METAL, <<0, 0, 0>>, 350,
                                   <<100, 0, 0, 0>>, Zero4),
                         WallAt(350, MAT_METAL)>>),
     ro |-> <<-100, 57, 0>>, rd |-> <<100, -7, 0>>]

\* A glass cube with half-size 1 and a ray that enters its upper face along
\* (0.6, -0.8, 0): the refracted ray meets the face x = 1 from inside beyond
\* the critical angle.
GlassCube ==
    [scene |-> SceneOf(<<Primitive(BOX, MAT_GLASS, <<0, 0, 0>>, 0,
                                   <<100, 100, 100, 0>>, Zero4)>>),
     ro |-> <<-10, 180, 0>>, rd |-> <<60, -80, 0>>]

\* Material ids a record can carry: the five defined ones and another value.
RenderMaterials == MAT_GROUND..(MAT_DIFFUSE + 1)

\* Rays that start at distance dist from the origin and point at it.
RaysAtOrigin(dist) ==
    { [ro |-> <<0, 0, dist>>, rd |-> <<0, 0, -100>>],
      [ro |-> <<0, 0, -dist>>, rd |-> <<0, 0, 100>>],
      [ro |-> <<dist, 0, 0>>, rd |-> <<-100, 0, 0>>],
      [ro |-> <<0, dist, 0>>, rd |-> <<0, -100, 0>>],
      [ro |-> <<(dist * 3) \div 5, (dist * 4) \div 5, 0>>, rd |-> <<-60, -80, 0>>] }

\* Rays that run along the plane y = 0 at height h above it.
RaysAlongFloor(h) == { [ro |-> <<0, h, 0>>, rd |-> <<100, 0, 0>>] }

RenderInputs ==
    { [scene |-> SceneOf(<<SphereAtOrigin(r, m)>>), ro |-> ray.ro, rd |-> ray.rd] :
        r \in {50, 100, 150}, m \in RenderMaterials,
        ray \in UNION { RaysAtOrigin(dist) : dist \in {200, 500, 800} } }
    \cup
    { [scene |-> SceneOf(<<FloorPlane(m)>>), ro |-> ray.ro, rd |-> ray.rd] :
        m \in RenderMaterials,
        ray \in RaysAtOrigin(300) \cup UNION { RaysAlongFloor(h) : h \in {1, 2, 50} } }
    \cup
    { [scene |-> SceneOf(<< >>), ro |-> ray.ro, rd |-> ray.rd] :
        ray \in RaysAtOrigin(500) }
    \cup
    { Corridor, SlabCorridor, GlassCube }

InitRender == EncodeIdle /\ DistIdle /\ ProgramStart

RenderQuiet ==
    UNCHANGED <<encVars, editorVars, gpuVars, edits, lastEvent, distIn, distOut,
                fresnelIn, fresnelOut, march,
          camera>>

\* render(initial_ro, initial_rd, ...) is entered: the variables before the
\* loop.
StartPixel ==
    /\ pixel.status = "idle"
    /\ \E in \in RenderInputs :
         pixel' = [NoPixel EXCEPT !.status = "loop", !.scene = in.scene,
                                  !.ro = in.ro, !.rd = in.rd,
                                  !.mask = <<One, One, One>>]
    /\ RenderQuiet

\* The loop condition holds: the primary march of the iteration and the test
\* result.x < MAX_DIST; its else branch empties the mask and breaks.
March ==
    /\ pixel.status = "loop"
    /\ LoopRuns(pixel.depth)
    /\ LET result == ray_march(pixel.scene, pixel.ro, pixel.rd)
           out    == sky_miss(pixel.ro, pixel.rd)
       IN  pixel' = IF IsHit(result)
                    THEN [pixel EXCEPT !.result = result,
                                       !.evals = @ + result.steps,
                                       !.iterations = @ + 1,
                                       !.shaded = FALSE,
                                       !.status = "hit"]
                    ELSE [pixel EXCEPT !.result = result,
                                       !.evals = @ + result.steps,
                                       !.iterations = @ + 1,
                                       !.shaded = FALSE,
                                       !.mask = out.mask,
                                       !.exit = out.exit,
                                       !.color = Append(@, ColorTerm("miss",
                                                    pixel.mask, One, pixel.rd)),
                                       !.status = "after"]
    /\ RenderQuiet

\* The hit branch: hit_pos and get_normal(hit_pos).
Normal ==
    /\ pixel.status = "hit"
    /\ LET hit_pos == ray_at(pixel.ro, pixel.rd, pixel.result.q)
       IN  pixel' = [pixel EXCEPT !.hit_pos = hit_pos,
                                  !.normal = get_normal(pixel.scene, hit_pos),
                                  !.shaded = TRUE,
                                  !.evals = @ + NormalEvaluations,
                                  !.status = "lit"]
    /\ RenderQuiet

\* The hit branch: the shadow march from hit_pos + normal * 0.01 to the light.
Shadow ==
    /\ pixel.status = "lit"
    /\ LET light_dir     == normalize(sub3(light_pos, pixel.hit_pos))
           shadow_origin == add3(pixel.hit_pos, scale3(pixel.normal, 1))
           shadow_result == ray_march(pixel.scene, shadow_origin, light_dir)
       IN  pixel' = [pixel EXCEPT !.shadow = shadow_result,
                                  !.evals = @ + shadow_result.steps,
                                  !.status = "scatter"]
    /\ RenderQuiet

\* The hit branch: the material's branch, then the end of the iteration (the
\* break on a negligible mask, or depth++).
Scatter ==
    /\ pixel.status = "scatter"
    /\ LET mat_id == pixel.result.mat_id
           albedo == get_material_color(mat_id, pixel.hit_pos)
           out    == IF mat_id = MAT_METAL
                     THEN metal_hit(pixel.rd, pixel.mask, pixel.hit_pos, pixel.normal)
                     ELSE IF mat_id = MAT_GLASS \/ mat_id = MAT_WATER
                     THEN glass_hit(pixel.rd, pixel.mask, pixel.hit_pos,
                                    pixel.normal, mat_id, albedo)
                     ELSE diffuse_hit(pixel.ro, pixel.rd, pixel.mask,
                                      pixel.hit_pos, pixel.normal)
           exit   == IF out.exit # "none" THEN out.exit
                     ELSE IF Negligible(out.mask) THEN "mask" ELSE "none"
           term   == IF mat_id = MAT_METAL
                     THEN ColorTerm("metal", pixel.mask, 0, pixel.normal)
                     ELSE IF mat_id = MAT_GLASS \/ mat_id = MAT_WATER
                     THEN fresnel_sky_term(pixel.rd, pixel.mask, pixel.hit_pos,
                                           pixel.normal, mat_id, albedo)
                     ELSE ColorTerm("diffuse", pixel.mask, 0, pixel.normal)
       IN  pixel' = [pixel EXCEPT
                        !.ro = out.ro, !.rd = out.rd, !.mask = out.mask,
                        !.color = Append(@, term),
                        !.depth = IF exit = "none" THEN @ + 1 ELSE @,
                        !.exit = exit,
                        !.status = IF exit = "none" THEN "loop" ELSE "after"]
    /\ RenderQuiet

\* The loop condition fails: MAX_BOUNCES iterations have run.
LoopEnds ==
    /\ pixel.status = "loop"
    /\ ~LoopRuns(pixel.depth)
    /\ pixel' = [pixel EXCEPT !.status = "after", !.exit = "budget"]
    /\ RenderQuiet

\* The code after the loop (sky for what is left of the mask, fog), return.
Return ==
    /\ pixel.status = "after"
    /\ pixel' = [pixel EXCEPT
                    !.color = IF dot3(pixel.mask, pixel.mask) > One * 10
                              THEN Append(@, ColorTerm("rest", pixel.mask, One,
                                                       pixel.rd))
                              ELSE @,
                    !.status = "returned"]
    /\ RenderQuiet

NextRender ==
    \/ StartPixel
    \/ March
    \/ Normal
    \/ Shadow
    \/ Scatter
    \/ LoopEnds
    \/ Return

SpecRender == InitRender /\ [][NextRender]_vars

-----------------------------------------------------------------------------
(* Specification SpecMarch: one ray_march, iteration by iteration           *)

\* Rays that start inside the sphere of radius 1 at the origin, where the
\* distance is negative.
RaysFromInside ==
    { [ro |-> <<0, 0, 50>>, rd |-> <<0, 0, -100>>],
      [ro |-> <<0, 0, 0>>, rd |-> <<100, 0, 0>>],
      [ro |-> <<30, 40, 0>>, rd |-> <<-60, -80, 0>>] }

MarchInputs ==
    RenderInputs
    \cup
    { [scene |-> SceneOf(<<SphereAtOrigin(100, m)>>), ro |-> ray.ro, rd |-> ray.rd] :
        m \in {MAT_GLASS, MAT_DIFFUSE}, ray \in RaysFromInside }

InitMarch == EncodeIdle /\ DistIdle /\ ProgramStart

MarchQuiet ==
    UNCHANGED <<encVars, editorVars, gpuVars, edits, lastEvent, distIn, distOut,
                pixel, fresnelIn, fresnelOut, camera>>

\* ray_march(ro, rd) is entered: q = 0.0, mat_id = -1.0.
StartMarch ==
    /\ march.status = "idle"
    /\ \E in \in MarchInputs :
         march' = [MarchIdle EXCEPT !.status = "loop", !.scene = in.scene,
                                    !.ro = in.ro, !.rd = in.rd]
    /\ MarchQuiet

\* One iteration of the for loop.
MarchStep ==
    /\ march.status = "loop"
    /\ march.st.end = "run"
    /\ march.st.steps < MAX_STEPS
    /\ march' = [march EXCEPT
                    !.st = march_step(march.scene, march.ro, march.rd, march.st)]
    /\ MarchQuiet

\* A break was taken or the loop condition fails: return vec2(q, mat_id).
MarchReturn ==
    /\ march.status = "loop"
    /\ march.st.end # "run" \/ march.st.steps >= MAX_STEPS
    /\ march' = [march EXCEPT !.status = "returned"]
    /\ MarchQuiet

NextMarch ==
    \/ StartMarch
    \/ MarchStep
    \/ MarchReturn

SpecMarch == InitMarch /\ [][NextMarch]_vars

-----------------------------------------------------------------------------
(* Specification SpecFresnel: fresnel on bounded arguments                  *)

CosineSteps == 10
MinRatio == 50
MaxRatio == 150

\* cos_theta from 0 to 1; render passes min(-dot(rd, n), 1.0).
FresnelCosines == { (100 * k) \div CosineSteps : k \in 0..CosineSteps }

\* ior_ratio: among them IOR_AIR / ior and ior / IOR_AIR of glass and water.
FresnelRatios == MinRatio..MaxRatio

InitFresnel == EncodeIdle /\ DistIdle /\ ProgramStart

CallFresnel ==
    /\ fresnelOut = NoCall
    /\ \E cos_theta \in FresnelCosines, ior_ratio \in FresnelRatios :
         /\ fresnelIn' = <<cos_theta, ior_ratio>>
         /\ fresnelOut' = <<fresnel(cos_theta, ior_ratio)>>
    /\ UNCHANGED <<encVars, editorVars, gpuVars, edits, lastEvent, distIn,
                   distOut, pixel, march, camera>>

NextFresnel == CallFresnel

SpecFresnel == InitFresnel /\ [][NextFresnel]_vars

-----------------------------------------------------------------------------
(* Claims on ray_march and render                                           *)

\* The march of the current iteration has been made and the ray it followed
\* is still in ro and rd.
Marched ==
    \/ pixel.status \in {"hit", "lit", "scatter"}
    \/ pixel.status = "after" /\ pixel.exit \in {"miss", "diffuse"}

\* C14: every march ends in a hit (|distance| < SURF_DIST), a miss
\* (q > MAX_DIST) or with its MAX_STEPS iterations used up, and a march whose
\* iterations were used up is treated as a miss: no hit point, normal or
\* material is computed from it.
C14_BudgetIsMiss ==
    /\ pixel.result.end \in {"none", "hit", "miss", "budget"}
    /\ pixel.result.end = "budget" => ~pixel.shaded

\* C15: for a sphere of radius r at the origin and a ray that starts at
\* distance D from the centre and points at it, D - r < MAX_DIST, the march
\* ends in a hit, in fewer than MAX_STEPS iterations, with q within SURF_DIST
\* of D - r.
HeadOnSphere ==
    /\ pixel.iterations = 1
    /\ Marched
    /\ pixel.scene.count = 1
    /\ pixel.scene.primitives[1].header[1] = SPHERE
    /\ pixel.scene.primitives[1].center_param0[1] = 0
    /\ pixel.scene.primitives[1].center_param0[2] = 0
    /\ pixel.scene.primitives[1].center_param0[3] = 0
    /\ pixel.rd = normalize(scale3(pixel.ro, -100))
    /\ length3(pixel.ro) - pixel.scene.primitives[1].center_param0[4] < MAX_DIST

C15_HeadOnSphereHit ==
    HeadOnSphere =>
        LET D == length3(pixel.ro)
            r == pixel.scene.primitives[1].center_param0[4]
        IN  /\ pixel.result.end = "hit"
            /\ pixel.result.steps < MAX_STEPS
            /\ IsSurface(pixel.result.q - (D - r))

\* The ray from (0, 0, 5) with direction (0, 0, -1) on the sphere of radius 1
\* has been marched: q is 4.0.
C15_Witness ==
    /\ HeadOnSphere
    /\ pixel.ro = <<0, 0, 500>>
    /\ pixel.rd = <<0, 0, -100>>
    /\ pixel.scene.primitives[1].center_param0[4] = 100
    /\ pixel.result.q = 400
    /\ pixel.result.end = "hit"

\* The latest march was taken for a hit and the material's branch has run.
Scattered == pixel.shaded /\ pixel.status \in {"loop", "after", "returned"}

Continues(mat_id) == mat_id \in {MAT_METAL, MAT_GLASS, MAT_WATER}

\* C16: after a hit on a material other than metal, glass and water the mask
\* is exactly zero and the loop is left: no further march is made.
C16_DiffuseTerminates ==
    (Scattered /\ ~Continues(pixel.result.mat_id)) =>
        /\ pixel.mask = <<0, 0, 0>>
        /\ pixel.status \in {"after", "returned"}
        /\ pixel.exit = "diffuse"

\* A pixel has returned after a hit on a material id that is none of the
\* five defined ones, and another after a hit on the ground.
C16_Witness ==
    /\ Scattered
    /\ pixel.status = "returned"
    /\ pixel.result.mat_id \in {MAT_GROUND, MAT_DIFFUSE + 1}
    /\ pixel.iterations = 1

\* C17: the bounce loop runs at most MAX_BOUNCES iterations and is left on a
\* miss, on a terminating material, on a negligible mask or with the bounces
\* used up.
C17_LoopBounded ==
    /\ pixel.iterations <= MAX_BOUNCES
    /\ pixel.status \in {"after", "returned"} =>
         \/ pixel.exit = "miss" /\ ~IsHit(pixel.result)
         \/ pixel.exit = "diffuse" /\ IsHit(pixel.result)
                                   /\ ~Continues(pixel.result.mat_id)
         \/ pixel.exit = "mask" /\ Negligible(pixel.mask)
         \/ pixel.exit = "budget" /\ pixel.iterations = MAX_BOUNCES

\* A pixel has returned after MAX_BOUNCES iterations with a mask that is not
\* negligible.
C17_Witness ==
    /\ pixel.status = "returned"
    /\ pixel.exit = "budget"
    /\ pixel.iterations = MAX_BOUNCES
    /\ ~Negligible(pixel.mask)

\* C18 as stated: the get_dist calls made for one pixel never exceed
\* MAX_STEPS * MAX_BOUNCES.
C18_EvaluationsWithinProduct == pixel.evals <= MAX_STEPS * MAX_BOUNCES

\* C18, amended: every iteration of the bounce loop makes at most
\* 2 * MAX_STEPS + 6 get_dist calls (a primary march, six for the normal, a
\* shadow march), so a pixel makes at most MAX_BOUNCES * (2 * MAX_STEPS + 6).
C18_EvaluationsBounded ==
    /\ pixel.evals <= pixel.iterations * (2 * MAX_STEPS + NormalEvaluations)
    /\ pixel.evals <= MAX_BOUNCES * (2 * MAX_STEPS + NormalEvaluations)

\* A pixel has returned after more than MAX_STEPS * MAX_BOUNCES get_dist
\* calls, every primary march of which ended on the surface.
C18_Witness ==
    /\ pixel.status = "returned"
    /\ pixel.evals > MAX_STEPS * MAX_BOUNCES
    /\ pixel.scene = Corridor.scene

\* The material's branch of a metal hit is about to run in an iteration
\* that is not the last one.
MetalHitBelowLast ==
    /\ pixel.status = "scatter"
    /\ pixel.result.mat_id = MAT_METAL
    /\ pixel.depth < MAX_BOUNCES - 1

\* The metal branch's assignments: the reflected direction, mask * 0.8.
MetalBranchTaken ==
    /\ pixel'.rd = reflect(pixel.rd, pixel.normal)
    /\ pixel'.mask = mask_times(pixel.mask, <<80, 80, 80>>)

\* The loop goes on: the next iteration's loop condition holds and its march
\* is the next thing to run.
LoopGoesOn ==
    /\ pixel'.status = "loop"
    /\ pixel'.depth = pixel.depth + 1
    /\ LoopRuns(pixel'.depth)
    /\ pixel'.exit = "none"

\* C23 as stated: a metal hit below the last iteration never ends the path;
\* the direction is reflected, the mask multiplied by 0.8 and the next
\* iteration's march follows.
C23_MetalNeverEnds ==
    [][MetalHitBelowLast => (MetalBranchTaken /\ LoopGoesOn)]_vars

\* C23, amended: after a metal hit below the last iteration the direction is
\* reflected and the mask multiplied by 0.8; the next iteration's march
\* follows unless dot(mask, mask) of the new mask is below 0.001, in which
\* case the loop is left.
C23_MetalContinuesUnlessNegligible ==
    [][MetalHitBelowLast =>
         /\ MetalBranchTaken
         /\ IF Negligible(pixel'.mask)
            THEN pixel'.status = "after" /\ pixel'.exit = "mask"
                 /\ pixel'.depth = pixel.depth
            ELSE LoopGoesOn]_vars

\* A path was ended by a metal hit below the last iteration: the mask that
\* a shallow refraction had left was made negligible by the mirror's 0.8.
C23_Witness ==
    /\ pixel.status = "after"
    /\ pixel.exit = "mask"
    /\ pixel.shaded
    /\ pixel.result.mat_id = MAT_METAL
    /\ pixel.depth < MAX_BOUNCES - 1
    /\ ~Negligible(<<(pixel.mask[1] * 100) \div 80, (pixel.mask[2] * 100) \div 80,
                     (pixel.mask[3] * 100) \div 80>>)

\* The material's branch of a glass or water hit is about to run.
GlassOrWaterHit ==
    /\ pixel.status = "scatter"
    /\ pixel.result.mat_id \in {MAT_GLASS, MAT_WATER}

\* C24: a glass or water hit takes exactly one continuation: the reflected
\* direction with mask * albedo if the refracted direction has squared
\* length below 1e-4, otherwise the refracted direction with
\* mask * (1 - F) * albedo; either way color receives exactly one term,
\* mask * F * sky(reflected direction), with the mask of before the update.
C24_OneContinuation ==
    [][GlassOrWaterHit =>
         LET mat_id    == pixel.result.mat_id
             albedo    == get_material_color(mat_id, pixel.hit_pos)
             entering  == dot3(pixel.rd, pixel.normal) < 0
             n         == IF entering THEN pixel.normal
                          ELSE scale3(pixel.normal, -100)
             ior       == IF mat_id = MAT_GLASS THEN IOR_GLASS ELSE IOR_WATER
             ior_ratio == IF entering THEN (IOR_AIR * 100) \div ior
                          ELSE (ior * 100) \div IOR_AIR
             F         == fresnel(Min((-dot3(pixel.rd, n)) \div 100, 100), ior_ratio)
             reflected == reflect(pixel.rd, n)
             refracted == refract_ray(pixel.rd, n, ior_ratio)
             through(i) == ((One - F) * albedo[i]) \div 100
         IN  /\ pixel'.color
                  = Append(pixel.color, ColorTerm("fresnel", pixel.mask, F, reflected))
             /\ IF dot3(refracted, refracted) < 1
                THEN /\ pixel'.rd = reflected
                     /\ pixel'.mask = mask_times(pixel.mask, albedo)
                ELSE /\ pixel'.rd = refracted
                     /\ pixel'.mask = <<(pixel.mask[1] * through(1)) \div One,
                                        (pixel.mask[2] * through(2)) \div One,
                                        (pixel.mask[3] * through(3)) \div One>>]_vars

\* A path has been refracted into glass, totally reflected inside it and
\* refracted out again: three glass hits, three sky terms, the second of
\* them weighted with the mask the first refraction left.
C24_Witness ==
    /\ pixel.scene = GlassCube.scene
    /\ pixel.status = "loop"
    /\ pixel.depth = 3
    /\ Len(pixel.color) = 3
    /\ pixel.color[2].mask # <<One, One, One>>
    /\ pixel.color[3].mask = mask_times(pixel.color[2].mask,
                                        get_material_color(MAT_GLASS, <<0, 0, 0>>))
    /\ \A i \in 1..3 : pixel.color[i].branch = "fresnel"

-----------------------------------------------------------------------------
(* Claims about the editor's entries                                        *)

\* C19: after any adds, removes and updates every entry of the host list has
\* a kind in 0..6 and a materialId in 0..4, and an add with a kind value that
\* is none of the seven appends the default sphere.
C19_ValidEnums ==
    /\ \A i \in 1..Len(scenePrimitives) :
         /\ scenePrimitives[i].kind \in SPHERE..CAPSULE
         /\ scenePrimitives[i].materialId \in MAT_GROUND..MAT_DIFFUSE
    /\ (lastEvent.op = "add" /\ lastEvent.arg \notin AddKinds
            /\ lastEvent.len < MAX_PRIMS) =>
         /\ Len(scenePrimitives) = lastEvent.len + 1
         /\ scenePrimitives[Len(scenePrimitives)]
              = Prim(SPHERE, MAT_DIFFUSE, <<0, 50, 0>>, 60, <<0, 0, 0, 0>>)

\* An add with a kind value that is none of the seven went through, after an
\* update had changed a material.
C19_Witness ==
    /\ lastEvent.op = "add"
    /\ lastEvent.arg \in OtherKinds
    /\ lastEvent.len < MAX_PRIMS
    /\ \E i \in 1..lastEvent.len : scenePrimitives[i].materialId = MAT_GLASS

-----------------------------------------------------------------------------
(* Claims about fresnel                                                     *)

-----------------------------------------------------------------------------
(* Claims about single marches                                              *)

\* C22: within one march q starts at 0 and never decreases from one
\* iteration to the next, also where the scene distance is negative.
C22_NeverDecreases ==
    [][/\ march'.status = "loop" /\ march.status = "idle" => march'.st.q = 0
       /\ march.status = "loop" => march'.st.q >= march.st.q]_vars

\* A march that started inside a primitive has made an iteration and is
\* still inside: q grew by a negative distance's absolute value, and the
\* distance at the new position is negative again.
C22_Witness ==
    /\ march.status = "loop"
    /\ march.st.steps >= 1
    /\ march.st.q > 0
    /\ get_dist(march.scene, march.ro)[1] < 0
    /\ get_dist(march.scene, ray_at(march.ro, march.rd, march.st.q))[1] < 0

-----------------------------------------------------------------------------
(* Claims about the selection                                               *)

\* C25: after any adds, removes and row selections from the initial state
\* the selected index is -1 exactly when the list is empty and otherwise an
\* index of the list, and the details panel's callbacks hold an index of the
\* list.
C25_SelectionInRange ==
    /\ (selectedPrimitiveIndex = -1) <=> (Len(scenePrimitives) = 0)
    /\ Len(scenePrimitives) > 0 =>
         (0 <= selectedPrimitiveIndex /\ selectedPrimitiveIndex < Len(scenePrimitives))
    /\ details # NoDetails =>
         (details.index = selectedPrimitiveIndex
            /\ details.index \in 0..(Len(scenePrimitives) - 1))

\* Both entries of the initial scene have been removed: the list is empty,
\* nothing is selected and the details panel shows its placeholder.
C25_Witness ==
    /\ lastEvent.op = "remove"
    /\ lastEvent.len = 1
    /\ Len(scenePrimitives) = 0
    /\ selectedPrimitiveIndex = -1
    /\ details = NoDetails

-----------------------------------------------------------------------------
(* Claims about the start-up                                                *)

\* C26: edits made before the GPU is ready are not lost.  While the device
\* or the scene buffer does not exist a change of the list issues nothing and
\* leaves the buffer alone; the step that creates the buffer issues one
\* write, of buildSceneData(the list as it is then); and whenever the GPU
\* starts to draw a frame the buffer holds buildSceneData of the list the
\* frame was issued with.
C26_EditsBeforeReadyKept ==
    /\ [][((~device \/ ~sceneBuffer) /\ scenePrimitives' # scenePrimitives) =>
            (queue' = queue /\ gpuScene' = gpuScene /\ ~sceneBuffer')]_vars
    /\ [][(~sceneBuffer /\ sceneBuffer') =>
            /\ device'
            /\ scenePrimitives' = scenePrimitives
            /\ PendingWrites' = <<WriteOp(buildSceneData(scenePrimitives))>>]_vars
    /\ [][(pass = << >> /\ pass' # << >>) =>
            /\ sceneBuffer
            /\ gpuScene = buildSceneData(pass'[1].list)]_vars
    /\ [][(Len(queue') > Len(queue) /\ queue'[Len(queue')].op = "pass") =>
            /\ queue'[Len(queue')].list = scenePrimitives
            /\ SceneBufferContents = buildSceneData(scenePrimitives)]_vars

\* The buffer has just been created after an edit that was made while there
\* was no device: its first upload, not yet executed, carries the edited
\* list.
C26_Witness ==
    /\ pc = "compile"
    /\ sceneBuffer
    /\ edits > 0
    /\ scenePrimitives # InitialScene
    /\ gpuScene = NewArrayBuffer(SCENE_SIZE)
    /\ queue = <<WriteOp(buildSceneData(scenePrimitives))>>

-----------------------------------------------------------------------------
(* Specification SpecCamera: the orbit camera under mouse events            *)

MaxMouseEvents == 4
MaxCamDist == 40000

\* Math.PI and Math.PI / 2 in milliradians.
Pi == 3142
HalfPi == 1571

\* -Math.PI / 2 + 0.01 and Math.PI / 2 - 0.01
PITCH_MIN == -HalfPi + 10
PITCH_MAX == HalfPi - 10

\* Math.sin of an angle in milliradians, in thousandths: Bhaskara's rational
\* approximation on [0, pi] (within 0.002 of the sine), odd and periodic.
sin(x) ==
    LET r == x % (2 * Pi)
        h == IF r <= Pi THEN r ELSE r - Pi
        t == h * (Pi - h)
        v == (16 * t) \div ((5 * Pi * Pi - 4 * t) \div 1000)
    IN  IF r <= Pi THEN v ELSE -v

cos(x) == sin(x + HalfPi)

\* computeCamPosFromOrbit
computeCamPosFromOrbit(cam) ==
    LET cosPitch == cos(cam.camPitch)
    IN  <<cam.camTarget[1] + (cam.camDist * ((sin(cam.camYaw) * cosPitch) \div 1000)) \div 1000,
          cam.camTarget[2] + (cam.camDist * sin(cam.camPitch)) \div 1000,
          cam.camTarget[3] + (cam.camDist * ((cos(cam.camYaw) * cosPitch) \div 1000)) \div 1000>>

\* updateCamera: camPos from the orbit parameters, camDir = dir / len.  The
\* position lies camDist from the target, so len is camDist and dir / len is
\* the unit vector of the orbit angles, reversed.
updateCamera(cam) ==
    LET cosPitch == cos(cam.camPitch)
    IN  [cam EXCEPT
            !.camPos = computeCamPosFromOrbit(cam),
            !.camDir = <<-((sin(cam.camYaw) * cosPitch) \div 1000),
                         -sin(cam.camPitch),
                         -((cos(cam.camYaw) * cosPitch) \div 1000)>>]

\* A mutation: the left button starts a drag without Alt.
StartsDrag_plainLeft(e) == e.button = 1 \/ e.button = 0

\* e.button === 1 || (e.button === 0 && e.altKey)
StartsDrag(e) == e.button = 1 \/ (e.button = 0 /\ e.altKey)

\* if (e.shiftKey) "pan" else if (e.ctrlKey) "zoom" else "orbit"
DragModeOf(e) ==
    IF e.shiftKey THEN "pan" ELSE IF e.ctrlKey THEN "zoom" ELSE "orbit"

\* The canvas's mousedown listener.
canvas_mousedown(cam, e, clientX, clientY) ==
    IF StartsDrag(e)
    THEN [cam EXCEPT !.isDragging = TRUE, !.lastX = clientX, !.lastY = clientY,
                     !.dragMode = DragModeOf(e)]
    ELSE cam

\* The window's mouseup listener.
window_mouseup(cam) == [cam EXCEPT !.isDragging = FALSE, !.dragMode = "null"]

\* camYaw -= dx * ROT_SPEED; camPitch += dy * ROT_SPEED, clamped
\* (ROT_SPEED = 0.005 is 5 milliradians a pixel).
orbit(cam, dx, dy) ==
    [cam EXCEPT !.camYaw = @ - dx * 5,
                !.camPitch = Min(Max(@ + dy * 5, PITCH_MIN), PITCH_MAX)]

\* camTarget += (dx * PAN_SPEED) * right + (dy * PAN_SPEED) * up, with
\* PAN_SPEED = 0.0015 * camDist, right = (camDir.z, 0, -camDir.x), up = (0, 1, 0).
pan(cam, dx, dy) ==
    LET sx == (dx * 15 * cam.camDist) \div 10000
        sy == (dy * 15 * cam.camDist) \div 10000
    IN  [cam EXCEPT !.camTarget = <<@[1] + (sx * cam.camDir[3]) \div 1000,
                                    @[2] + sy,
                                    @[3] + (sx * (-cam.camDir[1])) \div 1000>>]

\* camDist *= 1.0 + dy * ZOOM_SPEED * 0.1, ZOOM_SPEED = 0.01 * camDist;
\* camDist = Math.max(0.5, camDist).
zoom(cam, dy) ==
    [cam EXCEPT !.camDist =
        Max(500, @ + (((@ * dy) \div 1000) * @) \div 1000)]

\* The window's mousemove listener.
window_mousemove(cam, clientX, clientY) ==
    IF ~cam.isDragging \/ cam.dragMode = "null" THEN cam
    ELSE LET dx   == clientX - cam.lastX
             dy   == clientY - cam.lastY
             at   == [cam EXCEPT !.lastX = clientX, !.lastY = clientY]
         IN  updateCamera(IF cam.dragMode = "orbit" THEN orbit(at, dx, dy)
                          ELSE IF cam.dragMode = "pan" THEN pan(at, dx, dy)
                          ELSE IF cam.dragMode = "zoom" THEN zoom(at, dy)
                          ELSE at)

\* The canvas's wheel listener: camDist *= 1.0 + deltaY * 0.001.
canvas_wheel(cam, deltaY) ==
    updateCamera([cam EXCEPT !.camDist = Max(500, @ + (@ * deltaY) \div 1000)])

MouseButtons == 0..2
\* clientX, clientY of the events.
MousePositions == {<<0, 0>>, <<40, 300>>}
WheelDeltas == {-100, 100}

MouseEvent(type, button, altKey, shiftKey, ctrlKey, onCanvas) ==
    [type |-> type, button |-> button, altKey |-> altKey, shiftKey |-> shiftKey,
     ctrlKey |-> ctrlKey, onCanvas |-> onCanvas]

\* The event has been dispatched and its listeners, if any, have run.
Dispatched(cam, e) == [cam EXCEPT !.event = e, !.events = @ + 1]

InitCamera == EncodeIdle /\ DistIdle /\ ProgramStart

CameraQuiet ==
    UNCHANGED <<encVars, editorVars, gpuVars, edits, lastEvent, distIn, distOut,
                pixel, fresnelIn, fresnelOut, march>>

\* A button goes down, on the canvas or elsewhere on the page; only the
\* canvas has a listener.
MouseDown ==
    /\ camera.events < MaxMouseEvents
    /\ \E button \in MouseButtons, altKey \in BOOLEAN, shiftKey \in BOOLEAN,
          ctrlKey \in BOOLEAN, onCanvas \in BOOLEAN, at \in MousePositions :
         LET e == MouseEvent("mousedown", button, altKey, shiftKey, ctrlKey, onCanvas)
         IN  camera' = Dispatched(IF onCanvas
                                  THEN canvas_mousedown(camera, e, at[1], at[2])
                                  ELSE camera, e)
    /\ CameraQuiet

MouseUp ==
    /\ camera.events < MaxMouseEvents
    /\ \E button \in MouseButtons, onCanvas \in BOOLEAN :
         camera' = Dispatched(window_mouseup(camera),
                              MouseEvent("mouseup", button, FALSE, FALSE, FALSE,
                                         onCanvas))
    /\ CameraQuiet

MouseMove ==
    /\ camera.events < MaxMouseEvents
    /\ camera.camDist <= MaxCamDist
    /\ \E at \in MousePositions, onCanvas \in BOOLEAN :
         camera' = Dispatched(window_mousemove(camera, at[1], at[2]),
                              MouseEvent("mousemove", 0, FALSE, FALSE, FALSE,
                                         onCanvas))
    /\ CameraQuiet

Wheel ==
    /\ camera.events < MaxMouseEvents
    /\ camera.camDist <= MaxCamDist
    /\ \E deltaY \in WheelDeltas :
         camera' = Dispatched(canvas_wheel(camera, deltaY),
                              MouseEvent("wheel", 0, FALSE, FALSE, FALSE, TRUE))
    /\ CameraQuiet

\* render() calls updateCamera() at every frame.
CameraFrame ==
    /\ camera' = updateCamera(camera)
    /\ CameraQuiet

NextCamera ==
    \/ MouseDown
    \/ MouseUp
    \/ MouseMove
    \/ Wheel
    \/ CameraFrame

SpecCamera == InitCamera /\ [][NextCamera]_vars

-----------------------------------------------------------------------------
(* Claims about the camera                                                  *)

\* The orbit parameters the mouse can change.
Pose(cam) == <<cam.camYaw, cam.camPitch, cam.camTarget, cam.camDist>>

\* The step handles a mouse event of the given type.
Handles(type) ==
    /\ camera'.events = camera.events + 1
    /\ camera'.event.type = type

\* The event of the step is a mousedown on the canvas with the middle
\* button, or with the left button and Alt.
DragGesture ==
    /\ Handles("mousedown")
    /\ camera'.event.onCanvas
    /\ \/ camera'.event.button = 1
       \/ camera'.event.button = 0 /\ camera'.event.altKey

\* C21: a drag starts only on a canvas mousedown with the middle button or
\* Alt + left; its mode is fixed by that mousedown (Shift: pan, else Ctrl:
\* zoom, else orbit); mouse movement changes yaw, pitch, target or distance
\* only during a drag and only as the mode says; any mouseup ends the drag
\* and clears the mode.
C21_DragProtocol ==
    /\ [][(camera'.isDragging /\ ~camera.isDragging) => DragGesture]_vars
    /\ [][DragGesture =>
            /\ camera'.isDragging
            /\ camera'.dragMode = IF camera'.event.shiftKey THEN "pan"
                                  ELSE IF camera'.event.ctrlKey THEN "zoom"
                                  ELSE "orbit"]_vars
    /\ [][camera'.dragMode # camera.dragMode =>
            (DragGesture \/ (Handles("mouseup") /\ camera'.dragMode = "null"))]_vars
    /\ [][(Handles("mousedown") \/ Handles("mouseup")) =>
            Pose(camera') = Pose(camera)]_vars
    /\ [][Handles("mousemove") =>
            /\ camera'.isDragging = camera.isDragging
            /\ camera'.dragMode = camera.dragMode
            /\ ~camera.isDragging => Pose(camera') = Pose(camera)
            /\ (camera.isDragging /\ camera.dragMode = "orbit") =>
                 /\ camera'.camYaw = camera.camYaw - 5 * (camera'.lastX - camera.lastX)
                 /\ camera'.camPitch
                      = Min(Max(camera.camPitch + 5 * (camera'.lastY - camera.lastY),
                                PITCH_MIN), PITCH_MAX)
                 /\ camera'.camTarget = camera.camTarget
                 /\ camera'.camDist = camera.camDist
            /\ (camera.isDragging /\ camera.dragMode = "pan") =>
                 /\ camera'.camYaw = camera.camYaw
                 /\ camera'.camPitch = camera.camPitch
                 /\ camera'.camDist = camera.camDist
            /\ (camera.isDragging /\ camera.dragMode = "zoom") =>
                 /\ camera'.camYaw = camera.camYaw
                 /\ camera'.camPitch = camera.camPitch
                 /\ camera'.camTarget = camera.camTarget
                 /\ camera'.camDist >= 500]_vars
    /\ [][Handles("mouseup") =>
            (~camera'.isDragging /\ camera'.dragMode = "null")]_vars
    /\ [](camera.isDragging <=> camera.dragMode # "null")

\* A pan drag started with Shift + middle button has moved the target, and
\* nothing else, and the drag is still on.
C21_Witness ==
    /\ camera.isDragging
    /\ camera.dragMode = "pan"
    /\ camera.event.type = "mousemove"
    /\ camera.camTarget # CameraStart.camTarget
    /\ camera.camYaw = CameraStart.camYaw
    /\ camera.camPitch = CameraStart.camPitch
    /\ camera.camDist = CameraStart.camDist

====
